---- MODULE Spec2Model ----
(***************************************************************************)
(* A model of the soup interpreter (github.com/ocowchun/soup): the tree-   *)
(* walking evaluator of src/evaluator/evaluator.go over the value model of *)
(* the evaluator package and the builtins of its global environment.       *)
(*                                                                         *)
(* Go pointers are handles: a *ReturnValue is an index into heap, an       *)
(* *Environment an index into frames, the backing array of a []*ReturnValue*)
(* slice an index into arrays.  Nil is the nil pointer.                    *)
(***************************************************************************)
EXTENDS Integers, Sequences, FiniteSets, TLC

\* Number of top-level forms one run of Eval is given.
MaxForms == 3

Nil == 0

----------------------------------------------------------------------------
(* The AST (package parser).  Every node has the same shape; the fields a  *)
(* kind does not use are empty.                                            *)

Node(k, name, num, subs, params, rest, line) ==
    [k |-> k, name |-> name, num |-> num, subs |-> subs,
     params |-> params, rest |-> rest, line |-> line]

\* A number literal keeps the token text; the model keeps the value the text
\* denotes and whether the text is an integer numeral ("int") or not ("float").
NumberLiteral(n, line)  == Node("Number", "int", n, <<>>, <<>>, "", line)
FloatLiteral(n, line)   == Node("Number", "float", n, <<>>, <<>>, "", line)
StringLiteral(s, line)  == Node("String", s, 0, <<>>, <<>>, "", line)
SymbolExpression(s, line) == Node("Symbol", s, 0, <<>>, <<>>, "", line)
TrueLiteral             == Node("True", "#t", 0, <<>>, <<>>, "", 0)
FalseLiteral            == Node("False", "#f", 0, <<>>, <<>>, "", 0)
Void                    == Node("Void", "", 0, <<>>, <<>>, "", 0)
IdentifierExpression(x, line) == Node("Identifier", x, 0, <<>>, <<>>, "", line)
PrimitiveProcedureExpression(x, line) == Node("Primitive", x, 0, <<>>, <<>>, "", line)
\* subs[1] is the operator, the rest are the operands
CallExpression(operator, operands, line) ==
    Node("Call", "", 0, <<operator>> \o operands, <<>>, "", line)
\* subs = <<Predicate, Consequent, Alternative>>
IfExpression(p, c, a, line) == Node("If", "", 0, <<p, c, a>>, <<>>, "", line)
LambdaExpression(params, rest, body, line) ==
    Node("Lambda", "", 0, body, params, rest, line)
DefineExpression(name, value, line) == Node("Define", name, 0, <<value>>, <<>>, "", line)
SetExpression(name, value, line) == Node("Set", name, 0, <<value>>, <<>>, "", line)
BeginExpression(exps, line) == Node("Begin", "", 0, exps, <<>>, "", line)
ListExpression(elems, line) == Node("List", "", 0, elems, <<>>, "", line)
DelayExpression(e, line) == Node("Delay", "", 0, <<e>>, <<>>, "", line)

Operator(exp) == exp.subs[1]
\* the operands taken from the last to the first
Operands_RightToLeft(exp) ==
    [i \in 1..(Len(exp.subs) - 1) |-> exp.subs[Len(exp.subs) + 1 - i]]
Operands(exp) == Tail(exp.subs)

\* Expression.String() for the kinds that occur in operator position.
ExprString(exp) ==
    CASE exp.k = "Identifier" -> exp.name
      [] exp.k = "Primitive"  -> exp.name
      [] exp.k = "Lambda"     -> "(lambda)"
      [] exp.k = "Call"       -> "(call)"
      [] exp.k = "Number"     -> ToString(exp.num)
      [] OTHER                -> exp.name

----------------------------------------------------------------------------
(* Runtime values (ReturnValue) and errors.                                *)

MakeInt64Number(n)   == [isInt |-> TRUE, val |-> n]
MakeFloat64Number(n) == [isInt |-> FALSE, val |-> n]

NumberCell(num)   == [Type |-> "Number", Data |-> num]
StringCell(s)     == [Type |-> "String", Data |-> [s |-> s]]
SymbolCell(s)     == [Type |-> "Symbol", Data |-> [sym |-> s]]
ConstantCell(c)   == [Type |-> "Constant", Data |-> [c |-> c]]
BuiltinCell(name) == [Type |-> "BuiltinFunction", Data |-> [fn |-> name]]
ListCell(arr, off, len) == [Type |-> "List", Data |-> [arr |-> arr, off |-> off, len |-> len]]
ConsCell(car, cdr) == [Type |-> "Cons", Data |-> [Car |-> car, Cdr |-> cdr]]
ProcedureCell(params, rest, body, env) ==
    [Type |-> "Procedure",
     Data |-> [Parameters |-> params, OptionalTailParameter |-> rest,
               Body |-> body, Env |-> env]]
PromiseCell(exp, env) ==
    [Type |-> "Promise",
     Data |-> [Expression |-> exp, Env |-> env, EvaluatedValue |-> Nil]]

TrueValue  == "TrueValue"
FalseValue == "FalseValue"
VoidConst  == "VoidConst"

NoError == [msg |-> "", rt |-> FALSE, panic |-> FALSE, lineNumber |-> 0, stackTrace |-> <<>>]
\* fmt.Errorf / errors.New
Errorf(msg) == [msg |-> msg, rt |-> FALSE, panic |-> FALSE, lineNumber |-> 0, stackTrace |-> <<>>]
\* a Go panic unwinding the interpreter
PanicError(msg) == [msg |-> msg, rt |-> FALSE, panic |-> TRUE, lineNumber |-> 0, stackTrace |-> <<>>]

newRuntimeError(err, line, procedureName) ==
    IF err.panic THEN err
    ELSE IF err.rt
    THEN [msg |-> err.msg, rt |-> TRUE, panic |-> FALSE, lineNumber |-> line,
          stackTrace |-> Append(err.stackTrace,
                                [lineNumber |-> err.lineNumber,
                                 identifierName |-> procedureName])]
    ELSE [msg |-> err.msg, rt |-> TRUE, panic |-> FALSE, lineNumber |-> line,
          stackTrace |-> <<>>]

\* The result of evaluating something in interpreter state st.
Ret(st, val)  == [st |-> st, val |-> val, ok |-> TRUE, err |-> NoError]
Fail(st, err) == [st |-> st, val |-> Nil, ok |-> FALSE, err |-> err]

\* &ReturnValue{...}: a new cell; its handle is the new length of the heap.
Alloc(st, cell) == [st EXCEPT !.heap = Append(@, cell)]
NewHandle(st)   == Len(st.heap) + 1
RetNew(st, cell) == Ret(Alloc(st, cell), NewHandle(st))

\* a new backing array holding elems; its index is the new length of arrays
AllocArray(st, elems) == [st EXCEPT !.arrays = Append(@, elems)]
NewArray(st) == Len(st.arrays) + 1
\* &ReturnValue{Type: ListType, Data: &ListValue{Elements: elems}} on a
\* freshly allocated slice
RetNewList(st, elems) ==
    RetNew(AllocArray(st, elems), ListCell(NewArray(st), 0, Len(elems)))

\* list.Elements as a sequence of handles
Elements(st, cell) ==
    [i \in 1..cell.Data.len |-> st.arrays[cell.Data.arr][cell.Data.off + i]]

isFalse(cell) == cell.Type = "Constant" /\ cell.Data.c = FalseValue

----------------------------------------------------------------------------
(* Environment                                                             *)

newEnvironment == [enclosing |-> Nil, store |-> <<>>]

Put(frames, env, key, value) ==
    [frames EXCEPT ![env].store = (key :> value) @@ @]

RECURSIVE Get(_, _, _)
Get(frames, env, key) ==
    IF key \in DOMAIN frames[env].store
    THEN [val |-> frames[env].store[key], ok |-> TRUE]
    ELSE IF frames[env].enclosing # Nil
         THEN Get(frames, frames[env].enclosing, key)
         ELSE [val |-> Nil, ok |-> FALSE]

RECURSIVE Update(_, _, _, _)
\* Update creating the binding in the outermost frame when none has it
Update_CreatesBinding(frames, env, key, value) ==
    IF key \in DOMAIN frames[env].store
    THEN [frames |-> [frames EXCEPT ![env].store[key] = value],
          val |-> frames[env].store[key], ok |-> TRUE]
    ELSE IF frames[env].enclosing # Nil
         THEN Update(frames, frames[env].enclosing, key, value)
         ELSE [frames |-> Put(frames, env, key, value), val |-> value, ok |-> TRUE]

Update(frames, env, key, value) ==
    IF key \in DOMAIN frames[env].store
    THEN [frames |-> [frames EXCEPT ![env].store[key] = value],
          val |-> frames[env].store[key], ok |-> TRUE]
    ELSE IF frames[env].enclosing # Nil
         THEN Update(frames, frames[env].enclosing, key, value)
         ELSE [frames |-> frames, val |-> Nil, ok |-> FALSE]

----------------------------------------------------------------------------
(* Display, equality and the pair primitives.                              *)

Cell(st, h) == st.heap[h]

\* a []*ReturnValue slice: a window on a backing array
Slice(arr, off, len) == [arr |-> arr, off |-> off, len |-> len]
SliceAt(st, s, i) == st.arrays[s.arr][s.off + i]
RECURSIVE JoinWith(_, _)
JoinWith(strs, sep) ==
    IF Len(strs) = 0 THEN ""
    ELSE IF Len(strs) = 1 THEN strs[1]
    ELSE strs[1] \o sep \o JoinWith(Tail(strs), sep)

\* Number.String(): the floats of the model are integral, and %v prints an
\* integral float64 without a decimal point
NumberString(n) == ToString(n.val)

RECURSIVE Display(_, _, _)
Display(st, h, depth) ==
    LET rv == Cell(st, h)
        q  == IF depth = 0 THEN "'" ELSE ""
    IN CASE rv.Type = "Number"   -> NumberString(rv.Data)
         [] rv.Type = "String"   -> "\"" \o rv.Data.s \o "\""
         [] rv.Type = "Constant" ->
               (CASE rv.Data.c = VoidConst -> "<void>"
                  [] rv.Data.c = TrueValue -> "#t"
                  [] OTHER -> "#f")
         [] rv.Type = "Procedure" -> "<procedure>"
         [] rv.Type = "BuiltinFunction" -> "<builtin function>"
         [] rv.Type = "Symbol" -> q \o rv.Data.sym
         [] rv.Type = "List" ->
               LET elements == Elements(st, rv)
                   isQuote == /\ Len(elements) = 2
                              /\ Cell(st, elements[1]).Type = "Symbol"
                              /\ Cell(st, elements[1]).Data.sym = "quote"
               IN IF isQuote
                  THEN IF /\ Cell(st, elements[2]).Type = "Symbol"
                          /\ Cell(st, elements[2]).Data.sym # "quote"
                       THEN "''" \o Cell(st, elements[2]).Data.sym
                       ELSE IF depth > 0 /\ Cell(st, elements[2]).Type = "List"
                            THEN "'" \o Display(st, elements[2], depth + 1)
                            ELSE "''" \o Display(st, elements[2], depth + 1)
                  ELSE q \o "("
                         \o JoinWith([i \in 1..Len(elements) |->
                                        Display(st, elements[i], depth + 1)], " ")
                         \o ")"
         [] rv.Type = "Cons" ->
               q \o "(" \o Display(st, rv.Data.Car, depth + 1) \o " . "
                 \o Display(st, rv.Data.Cdr, depth + 1) \o ")"
         [] rv.Type = "Promise" -> "<promise>"
         [] OTHER -> "<unknown return value type>"

\* ReturnValue.String()
ValueString(st, h) == Display(st, h, 0)

\* a.Number() == b.Number() compares two Number structs holding an any:
\* equal only when the dynamic types agree and the values agree
RECURSIVE equal(_, _, _)
equal(st, a, b) ==
    IF a = b THEN TRUE
    ELSE LET ca == Cell(st, a)
             cb == Cell(st, b)
         IN CASE ca.Type = "Number" ->
                   cb.Type = "Number" /\ ca.Data.isInt = cb.Data.isInt /\ ca.Data.val = cb.Data.val
              [] ca.Type = "String" ->
                   cb.Type = "String" /\ ca.Data.s = cb.Data.s
              [] ca.Type = "Symbol" ->
                   cb.Type = "Symbol" /\ ca.Data.sym = cb.Data.sym
              [] ca.Type = "List" ->
                   /\ cb.Type = "List"
                   /\ ca.Data.len = cb.Data.len
                   /\ \A i \in 1..ca.Data.len :
                         equal(st, Elements(st, ca)[i], Elements(st, cb)[i])
              [] ca.Type = "Constant" ->
                   cb.Type = "Constant" /\ ca.Data.c = cb.Data.c
              [] ca.Type = "Cons" ->
                   /\ cb.Type = "Cons"
                   /\ equal(st, ca.Data.Car, cb.Data.Car)
                   /\ equal(st, ca.Data.Cdr, cb.Data.Cdr)
              [] OTHER -> FALSE

getCar(st, val) ==
    LET c == Cell(st, val)
    IN CASE c.Type = "Cons" -> Ret(st, c.Data.Car)
         [] c.Type = "List" ->
               IF c.Data.len = 0
               THEN Fail(st, Errorf("cannot call 'car' on an empty list"))
               ELSE Ret(st, Elements(st, c)[1])
         [] OTHER -> Fail(st, Errorf("'car' expected cons or list value, got " \o c.Type))

\* cdr copying the elements after the first into a new backing array
getCdr_Copies(st, val) ==
    LET c == Cell(st, val)
    IN CASE c.Type = "Cons" -> Ret(st, c.Data.Cdr)
         [] c.Type = "List" ->
               IF c.Data.len = 0
               THEN Fail(st, Errorf("cannot call 'cdr' on an empty list"))
               ELSE RetNewList(st, Tail(Elements(st, c)))
         [] OTHER -> Fail(st, Errorf("'cdr' expected cons or list value, got " \o c.Type))

\* the new list is list.Elements[1:], a window on the same backing array
getCdr(st, val) ==
    LET c == Cell(st, val)
    IN CASE c.Type = "Cons" -> Ret(st, c.Data.Cdr)
         [] c.Type = "List" ->
               IF c.Data.len = 0
               THEN Fail(st, Errorf("cannot call 'cdr' on an empty list"))
               ELSE RetNew(st, ListCell(c.Data.arr, c.Data.off + 1, c.Data.len - 1))
         [] OTHER -> Fail(st, Errorf("'cdr' expected cons or list value, got " \o c.Type))

CON_OP_CAR == "CON_OP_CAR"
CON_OP_CDR == "CON_OP_CDR"

ConProcedureFactory(operations, parameters, st) ==
    LET RECURSIVE applyConOperations(_, _, _)
        applyConOperations(st1, val, ops) ==
            IF Len(ops) = 0 THEN Ret(st1, val)
            ELSE LET r == IF ops[1] = CON_OP_CAR THEN getCar(st1, val)
                          ELSE getCdr(st1, val)
                 IN IF ~r.ok THEN r
                    ELSE applyConOperations(r.st, r.val, Tail(ops))
    IN
    IF parameters.len # 1
    THEN Fail(st, Errorf("expected 1 argument, got " \o ToString(parameters.len)))
    ELSE applyConOperations(st, SliceAt(st, parameters, 1), operations)

isPair(st, val) ==
    LET c == Cell(st, val)
    IN CASE c.Type = "Cons" -> TRUE
         [] c.Type = "List" -> c.Data.len > 0
         [] OTHER -> FALSE

----------------------------------------------------------------------------
(* Builtins of initGlobalEnvironment.  parameters is the []*ReturnValue    *)
(* slice the builtin is called with.                                       *)

Param(st, parameters, i) == Cell(st, SliceAt(st, parameters, i))

MinOf(S) == CHOOSE i \in S : \A j \in S : i <= j

\* index of the first parameter that is not a number, 0 when all are
firstNonNumber(st, parameters) ==
    LET bad == {i \in 1..parameters.len : Param(st, parameters, i).Type # "Number"}
    IN IF bad = {} THEN 0 ELSE MinOf(bad)

\* Number.Float64() of the parameters, summed left to right
RECURSIVE sumFloat64(_, _, _)
sumFloat64(st, parameters, i) ==
    IF i > parameters.len THEN 0
    ELSE Param(st, parameters, i).Data.val + sumFloat64(st, parameters, i + 1)

\* math.MaxInt64 and math.MinInt64, scaled to the widest two's complement
\* range the model checker's integers have
MaxInt64 == 2147483647
MinInt64 == (-MaxInt64) - 1

plus(parameters, st) ==
    LET bad == firstNonNumber(st, parameters)
    IN IF bad # 0
       THEN Fail(st, Errorf("all arguments to '+' must be numbers, got "
                            \o Param(st, parameters, bad).Type))
       ELSE RetNew(st, NumberCell(MakeFloat64Number(sumFloat64(st, parameters, 1))))

minus(parameters, st) ==
    IF parameters.len = 0
    THEN Fail(st, Errorf("'-' requires at least one argument"))
    ELSE IF parameters.len = 1
    THEN LET val == Param(st, parameters, 1)
         IN IF val.Type # "Number"
            THEN Fail(st, Errorf("all arguments to '-' must be numbers, got " \o val.Type))
            ELSE IF val.Data.isInt /\ val.Data.val # MinInt64
                 THEN RetNew(st, NumberCell(MakeInt64Number(val.Data.val * (-1))))
                 ELSE RetNew(st, NumberCell(MakeFloat64Number(-val.Data.val)))
    ELSE LET bad == firstNonNumber(st, parameters)
         IN IF bad # 0
            THEN Fail(st, Errorf("all arguments to '-' must be numbers, got "
                                 \o Param(st, parameters, bad).Type))
            ELSE RetNew(st, NumberCell(MakeFloat64Number(
                     Param(st, parameters, 1).Data.val
                       - sumFloat64(st, parameters, 2))))

times(parameters, st) ==
    LET \* Number.Float64() of the parameters, multiplied left to right
        RECURSIVE productFloat64(_)
        productFloat64(i) ==
            IF i > parameters.len THEN 1
            ELSE Param(st, parameters, i).Data.val * productFloat64(i + 1)
    IN
    IF parameters.len = 0
    THEN Fail(st, Errorf("'*' requires at least one argument"))
    ELSE LET bad == firstNonNumber(st, parameters)
         IN IF bad # 0
            THEN Fail(st, Errorf("all arguments to '*' must be numbers, got "
                                 \o Param(st, parameters, bad).Type))
            ELSE RetNew(st, NumberCell(MakeFloat64Number(
                                          productFloat64(1))))

\* the builtin "remainder".  The % of two int64 is a run-time panic of Go
\* when the divisor is 0.
remainder(parameters, st) ==
    LET \* the absolute value
        Abs(n) == IF n < 0 THEN -n ELSE n
        \* Go's x % y and math.Mod(x, y) for y # 0: the remainder of the
        \* division truncated toward zero, with the sign of x
        Rem(x, y) == IF x < 0 THEN -(Abs(x) % Abs(y)) ELSE x % Abs(y)
        \* math.Mod(x, 0)
        NaN == "NaN"
    IN
    IF parameters.len # 2
    THEN Fail(st, Errorf("'remainder' has been called with " \o ToString(parameters.len)
                         \o " arguments; it requires exactly 2 argument"))
    ELSE LET a == Param(st, parameters, 1)
             b == Param(st, parameters, 2)
         IN IF a.Type # "Number"
            THEN Fail(st, Errorf("expected number value, got " \o a.Type))
            ELSE IF b.Type # "Number"
            THEN Fail(st, Errorf("expected number value, got " \o b.Type))
            ELSE IF a.Data.isInt /\ b.Data.isInt
            THEN IF b.Data.val = 0
                 THEN Fail(st, PanicError("runtime error: integer divide by zero"))
                 ELSE RetNew(st, NumberCell(MakeInt64Number(Rem(a.Data.val, b.Data.val))))
            ELSE IF b.Data.val = 0
                 THEN RetNew(st, NumberCell(MakeFloat64Number(NaN)))
                 ELSE RetNew(st, NumberCell(MakeFloat64Number(Rem(a.Data.val, b.Data.val))))

\* the builtin "random".  r.Int63n(n) panics unless n > 0; its result is a
\* number of the source reduced to [0, n).  For a float n the result is
\* r.Float64() * n, a number between 0 and n that the integral floats of the
\* model round down.
random(parameters, st) ==
    IF parameters.len # 1
    THEN Fail(st, Errorf("'random' has been called with " \o ToString(parameters.len)
                         \o " arguments; it requires exactly 1 argument"))
    ELSE LET val == Param(st, parameters, 1)
             \* the next number of the source
             Int63(r) == r.draws[((r.next - 1) % Len(r.draws)) + 1]
             drawn == [st EXCEPT !.rng.next = @ + 1]
         IN IF val.Type # "Number"
            THEN Fail(st, Errorf("expected number type, got " \o val.Type))
            ELSE IF val.Data.isInt
            THEN IF val.Data.val <= 0
                 THEN Fail(st, PanicError("invalid argument to Int63n"))
                 ELSE RetNew(drawn, NumberCell(MakeInt64Number(
                                       Int63(st.rng) % val.Data.val)))
            ELSE IF val.Data.val = 0
                 THEN RetNew(drawn, NumberCell(MakeFloat64Number(0)))
                 ELSE RetNew(drawn, NumberCell(MakeFloat64Number(
                                       IF val.Data.val > 0
                                       THEN Int63(st.rng) % val.Data.val
                                       ELSE -(Int63(st.rng) % (-val.Data.val)))))

\* [cmp, ok, err]
compareNumber(parameters, op, st) ==
    IF parameters.len # 2
    THEN [cmp |-> 0, ok |-> FALSE,
          err |-> Errorf("'" \o op \o "' has been called with "
                         \o ToString(parameters.len)
                         \o " arguments; it requires exactly 1 argument")]
    ELSE LET left == Param(st, parameters, 1)
             right == Param(st, parameters, 2)
         IN IF left.Type # "Number"
            THEN [cmp |-> 0, ok |-> FALSE,
                  err |-> Errorf("!expected number value, got " \o left.Type)]
            ELSE IF right.Type # "Number"
            THEN [cmp |-> 0, ok |-> FALSE,
                  err |-> Errorf("expected number value, got " \o right.Type)]
            ELSE [cmp |-> IF left.Data.val > right.Data.val THEN 1
                          ELSE IF left.Data.val < right.Data.val THEN -1 ELSE 0,
                  ok |-> TRUE, err |-> NoError]

BoolCell(b) == ConstantCell(IF b THEN TrueValue ELSE FalseValue)

\* the builtins ">", ">=", "<", "<=", "="
compareBuiltin(op, parameters, st) ==
    LET c == compareNumber(parameters, op, st)
    IN IF ~c.ok THEN Fail(st, c.err)
       ELSE RetNew(st, BoolCell(CASE op = ">"  -> c.cmp = 1
                                  [] op = ">=" -> c.cmp >= 0
                                  [] op = "<"  -> c.cmp = -1
                                  [] op = "<=" -> c.cmp <= 0
                                  [] OTHER     -> c.cmp = 0))

equalBuiltin(parameters, st) ==
    IF parameters.len # 2
    THEN Fail(st, Errorf("'equal?' has been called with " \o ToString(parameters.len)
                         \o " arguments; it requires exactly 2 argument"))
    ELSE RetNew(st, BoolCell(equal(st, SliceAt(st, parameters, 1),
                                   SliceAt(st, parameters, 2))))

\* the builtin "eq?".  Its case for ConsType reads both values through
\* Constant(), which panics on a value that is not a Constant.
eqBuiltin(parameters, st) ==
    IF parameters.len # 2
    THEN Fail(st, Errorf("'eq?' has been called with " \o ToString(parameters.len)
                         \o " arguments; it requires exactly 2 argument"))
    ELSE LET val1 == SliceAt(st, parameters, 1)
             val2 == SliceAt(st, parameters, 2)
             c1 == Cell(st, val1)
             c2 == Cell(st, val2)
         IN IF val1 = val2 THEN RetNew(st, ConstantCell(TrueValue))
            ELSE IF c1.Type = c2.Type /\ c1.Type = "Cons"
            THEN Fail(st, PanicError("not a constant"))
            ELSE RetNew(st, BoolCell(
                   /\ c1.Type = c2.Type
                   /\ CASE c1.Type = "Number" ->
                          c1.Data.isInt = c2.Data.isInt /\ c1.Data.val = c2.Data.val
                        [] c1.Type = "String" -> c1.Data.s = c2.Data.s
                        [] c1.Type = "Symbol" -> c1.Data.sym = c2.Data.sym
                        [] c1.Type = "List" -> c1.Data.len = 0 /\ c2.Data.len = 0
                        [] OTHER -> FALSE))

\* the builtin "and", reached when the call was not short-circuited
and(parameters, st) ==
    LET falses == {i \in 1..parameters.len : isFalse(Param(st, parameters, i))}
        st1 == Alloc(st, ConstantCell(TrueValue))      \* res := &ReturnValue{#t}
    IN IF falses # {}
       THEN RetNew(st1, ConstantCell(FalseValue))
       ELSE IF parameters.len = 0 THEN Ret(st1, NewHandle(st))
            ELSE Ret(st1, SliceAt(st, parameters, parameters.len))

\* the builtin "or"
or(parameters, st) ==
    LET truthy == {i \in 1..parameters.len : ~isFalse(Param(st, parameters, i))}
    IN IF truthy # {}
       THEN Ret(st, SliceAt(st, parameters, MinOf(truthy)))
       ELSE RetNew(st, ConstantCell(FalseValue))

not(parameters, st) ==
    IF parameters.len # 1
    THEN Fail(st, Errorf("'cons' has been called with " \o ToString(parameters.len)
                         \o " arguments; it requires exactly 1 argument"))
    ELSE RetNew(st, BoolCell(isFalse(Param(st, parameters, 1))))

\* cons making a Cons cell whatever its second operand is
cons_AlwaysPair(parameters, st) ==
    IF parameters.len # 2
    THEN Fail(st, Errorf("'cons' has been called with " \o ToString(parameters.len)
                         \o " arguments; it requires exactly 2 arguments"))
    ELSE RetNew(st, ConsCell(SliceAt(st, parameters, 1), SliceAt(st, parameters, 2)))

cons(parameters, st) ==
    IF parameters.len # 2
    THEN Fail(st, Errorf("'cons' has been called with " \o ToString(parameters.len)
                         \o " arguments; it requires exactly 2 arguments"))
    ELSE LET car == SliceAt(st, parameters, 1)
             cdr == SliceAt(st, parameters, 2)
         IN IF Cell(st, cdr).Type = "List"
            THEN \* append to the one-element slice {car} reallocates: the new
                 \* list never shares the backing array of cdr
                 RetNewList(st, <<car>> \o Elements(st, Cell(st, cdr)))
            ELSE RetNew(st, ConsCell(car, cdr))

\* &ListValue{Elements: parameters}: the list is the parameter slice itself
list(parameters, st) ==
    RetNew(st, ListCell(parameters.arr, parameters.off, parameters.len))

length(parameters, st) ==
    IF parameters.len # 1
    THEN Fail(st, Errorf("'length' has been called with " \o ToString(parameters.len)
                         \o " arguments; it requires exactly 1 arguments"))
    ELSE IF Param(st, parameters, 1).Type # "List"
    THEN Fail(st, Errorf("expected list value, got " \o Param(st, parameters, 1).Type))
    ELSE RetNew(st, NumberCell(MakeInt64Number(Param(st, parameters, 1).Data.len)))

setCar(parameters, st) ==
    IF parameters.len # 2
    THEN Fail(st, Errorf("'set-car!' has been called with " \o ToString(parameters.len)
                         \o " arguments; it requires exactly 2 argument"))
    ELSE LET carVal == SliceAt(st, parameters, 2)
             container == SliceAt(st, parameters, 1)
             c == Cell(st, container)
         IN CASE c.Type = "Cons" ->
                   RetNew([st EXCEPT !.heap[container].Data.Car = carVal],
                          ConstantCell(VoidConst))
              [] c.Type = "List" ->
                   IF c.Data.len = 0
                   THEN Fail(st, Errorf("cannot set-car! on an empty list"))
                   ELSE RetNew([st EXCEPT !.arrays[c.Data.arr][c.Data.off + 1] = carVal],
                               ConstantCell(VoidConst))
              [] OTHER ->
                   Fail(st, Errorf("first argument to 'set-car!' must be a cons cell or a non-empty list"))

\* set-cdr! on a List making a new Cons value and leaving the container
setCdr_NewValue(parameters, st) ==
    IF parameters.len # 2
    THEN Fail(st, Errorf("'set-cdr!' has been called with " \o ToString(parameters.len)
                         \o " arguments; it requires exactly 2 argument"))
    ELSE LET cdrVal == SliceAt(st, parameters, 2)
             container == SliceAt(st, parameters, 1)
             c == Cell(st, container)
         IN CASE c.Type = "Cons" ->
                   RetNew([st EXCEPT !.heap[container].Data.Cdr = cdrVal],
                          ConstantCell(VoidConst))
              [] c.Type = "List" ->
                   IF c.Data.len = 0
                   THEN Fail(st, Errorf("cannot set-cdr! on an empty list"))
                   ELSE RetNew(Alloc(st, ConsCell(Elements(st, c)[1], cdrVal)),
                               ConstantCell(VoidConst))
              [] OTHER ->
                   Fail(st, Errorf("first argument to 'set-cdr!' must be a cons cell or a non-empty list"))

setCdr(parameters, st) ==
    IF parameters.len # 2
    THEN Fail(st, Errorf("'set-cdr!' has been called with " \o ToString(parameters.len)
                         \o " arguments; it requires exactly 2 argument"))
    ELSE LET cdrVal == SliceAt(st, parameters, 2)
             container == SliceAt(st, parameters, 1)
             c == Cell(st, container)
         IN CASE c.Type = "Cons" ->
                   RetNew([st EXCEPT !.heap[container].Data.Cdr = cdrVal],
                          ConstantCell(VoidConst))
              [] c.Type = "List" ->
                   IF c.Data.len = 0
                   THEN Fail(st, Errorf("cannot set-cdr! on an empty list"))
                   ELSE \* container.Type = ConsType; container.Data = cons
                        RetNew([st EXCEPT !.heap[container] =
                                   ConsCell(Elements(st, c)[1], cdrVal)],
                               ConstantCell(VoidConst))
              [] OTHER ->
                   Fail(st, Errorf("first argument to 'set-cdr!' must be a cons cell or a non-empty list"))

isNull(parameters, st) ==
    IF parameters.len # 1
    THEN Fail(st, Errorf("'null?' has been called with " \o ToString(parameters.len)
                         \o " arguments; it requires exactly 1 argument"))
    ELSE LET val == Param(st, parameters, 1)
         IN RetNew(st, BoolCell(val.Type = "List" /\ val.Data.len = 0))

\* fmt.Print writes to the process's standard output
display(parameters, st) ==
    IF parameters.len # 1
    THEN Fail(st, Errorf("'display' has been called with " \o ToString(parameters.len)
                         \o " arguments; it requires exactly 1 argument"))
    ELSE LET val == Param(st, parameters, 1)
             text == IF val.Type = "String" THEN val.Data.s
                     ELSE ValueString(st, SliceAt(st, parameters, 1))
         IN RetNew([st EXCEPT !.stdout = Append(@, text)], ConstantCell(VoidConst))

----------------------------------------------------------------------------
(* The evaluator.  Every operator takes the interpreter state st and       *)
(* returns a result [st, val, ok, err]: the state after the call, the      *)
(* returned *ReturnValue and the returned error.                           *)

currentProcedureName(st) == st.procedureNames[Len(st.procedureNames)]
pushProcedureName(st, name) == [st EXCEPT !.procedureNames = Append(@, name)]
popProcedureName(st) ==
    [st EXCEPT !.procedureNames = SubSeq(@, 1, Len(@) - 1)]

RECURSIVE eval(_, _, _)
RECURSIVE evalBeginExpression(_, _, _, _)
RECURSIVE evalListExpression(_, _, _, _)
RECURSIVE evalCallOperands(_, _, _, _, _, _, _)
RECURSIVE evalCallExpression(_, _, _)
RECURSIVE evalBuiltinFunction(_, _, _, _)
RECURSIVE evalProcedureBody(_, _, _, _, _)
RECURSIVE evalProcedure(_, _, _, _)
RECURSIVE force(_, _)

\* the loop of evalBeginExpression from form i on
evalBeginExpression(exp, i, environment, st) ==
    IF i > Len(exp.subs) THEN Fail(st, PanicError("unreachable"))
    ELSE LET r == eval(exp.subs[i], environment, st)
         IN IF ~r.ok THEN r
            ELSE IF i = Len(exp.subs) THEN r
            ELSE evalBeginExpression(exp, i + 1, environment, r.st)

\* the loop of evalListExpression from element i on; elements holds the
\* values of the elements before i
evalListExpression(exp, i, environment, elements) ==
    \* elements is [st, vals]
    IF i > Len(exp.subs)
    THEN RetNewList(elements.st, elements.vals)
    ELSE LET r == eval(exp.subs[i], environment, elements.st)
         IN IF ~r.ok THEN r
            ELSE evalListExpression(exp, i + 1, environment,
                                    [st |-> r.st, vals |-> Append(elements.vals, r.val)])

evalSetExpression(exp, environment, st) ==
    LET r == eval(exp.subs[1], environment, st)
    IN IF ~r.ok THEN r
       ELSE LET u == Update(r.st.frames, environment, exp.name, r.val)
            IN IF ~u.ok
               THEN Fail(r.st, Errorf("can't find key " \o exp.name \o " to update"))
               ELSE Ret([r.st EXCEPT !.frames = u.frames], u.val)

\* a strict boolean check: every value except #t counts as false
takesAlternative_UnlessTrue(cond) == ~(cond = ConstantCell(TrueValue))

\* In Scheme, any value except #f counts as true in conditionals.
takesAlternative(cond) == cond.Type = "Constant" /\ cond.Data.c = FalseValue

evalIfExpression(exp, environment, st) ==
    LET Predicate == exp.subs[1]
        Consequent == exp.subs[2]
        Alternative == exp.subs[3]
        cond == eval(Predicate, environment, st)
    IN IF ~cond.ok
       THEN Fail(cond.st, newRuntimeError(cond.err, Predicate.line,
                                          currentProcedureName(cond.st)))
       ELSE IF takesAlternative(Cell(cond.st, cond.val))
       THEN LET r == eval(Alternative, environment, cond.st)
            IN IF ~r.ok
               THEN Fail(r.st, newRuntimeError(r.err, Alternative.line,
                                               currentProcedureName(r.st)))
               ELSE r
       ELSE LET r == eval(Consequent, environment, cond.st)
            IN IF ~r.ok
               THEN Fail(r.st, newRuntimeError(r.err, Consequent.line,
                                               currentProcedureName(r.st)))
               ELSE r

\* a closure capturing a copy of the frame it is created in
evalLambdaExpression_CopiesFrame(exp, environment, st) ==
    RetNew([st EXCEPT !.frames = Append(@, @[environment])],
           ProcedureCell(exp.params, exp.rest, exp.subs, Len(st.frames) + 1))

evalLambdaExpression(exp, environment, st) ==
    RetNew(st, ProcedureCell(exp.params, exp.rest, exp.subs, environment))

\* define assigning to the binding an enclosing frame already has
evalDefineExpression_UpdatesOuter(exp, environment, st) ==
    LET r == eval(exp.subs[1], environment, st)
        u == Update(r.st.frames, environment, exp.name, r.val)
    IN IF ~r.ok THEN r
       ELSE IF u.ok THEN Ret([r.st EXCEPT !.frames = u.frames], r.val)
       ELSE Ret([r.st EXCEPT !.frames = Put(@, environment, exp.name, r.val)], r.val)

evalDefineExpression(exp, environment, st) ==
    LET r == eval(exp.subs[1], environment, st)
    IN IF ~r.ok THEN r
       ELSE Ret([r.st EXCEPT !.frames = Put(@, environment, exp.name, r.val)], r.val)

\* Delay: a Promise capturing the body expression and the current
\* environment, its memo slot empty
evalDelayExpression(exp, environment, st) ==
    RetNew(st, PromiseCell(exp.subs[1], environment))

\* the workaround stopping only at the constant #t
orShortCircuits_OnlyAtTrue(isOrFn, operand) ==
    isOrFn /\ operand = ConstantCell(TrueValue)

\* Workaround to support (or 1 bad-exp), to not eval bad-exp
orShortCircuits(isOrFn, operand) ==
    isOrFn /\ ~(operand.Type = "Constant" /\ operand.Data.c = FalseValue)

\* the operand loop without the workaround for and
andShortCircuits_Never(isAndFn, operand) == FALSE

\* Workaround to support (and #f bad-exp), to not eval bad-exp
andShortCircuits(isAndFn, operand) ==
    isAndFn /\ (operand.Type = "Constant" /\ operand.Data.c = FalseValue)

\* the operand loop of evalCallExpression from operand i on.  The result has
\* early = TRUE when the loop returned from evalCallExpression (an error or a
\* short-circuit), and otherwise carries the operand values in vals.
evalCallOperands(exp, i, environment, st, vals, isOrFn, isAndFn) ==
    IF i > Len(Operands(exp))
    THEN [st |-> st, val |-> Nil, ok |-> TRUE, err |-> NoError,
          early |-> FALSE, vals |-> vals]
    ELSE LET r == eval(Operands(exp)[i], environment, st)
         IN IF ~r.ok
            THEN [st |-> r.st, val |-> Nil, ok |-> FALSE,
                  err |-> newRuntimeError(r.err, Operator(exp).line,
                                          currentProcedureName(r.st)),
                  early |-> TRUE, vals |-> vals]
            ELSE IF orShortCircuits(isOrFn, Cell(r.st, r.val))
            THEN [st |-> r.st, val |-> r.val, ok |-> TRUE, err |-> NoError,
                  early |-> TRUE, vals |-> vals]
            ELSE IF andShortCircuits(isAndFn, Cell(r.st, r.val))
            THEN [st |-> Alloc(r.st, ConstantCell(FalseValue)),
                  val |-> NewHandle(r.st), ok |-> TRUE, err |-> NoError,
                  early |-> TRUE, vals |-> vals]
            ELSE evalCallOperands(exp, i + 1, environment, r.st,
                                  Append(vals, r.val), isOrFn, isAndFn)

\* the BuiltinFunctionType case of evalCallExpression once the function has
\* returned r: the error is printed and wrapped, the procedure name popped
builtinReturn(r, operator) ==
    IF r.ok THEN Ret(popProcedureName(r.st), r.val)
    ELSE IF r.err.panic THEN r
    ELSE Fail(popProcedureName(
                [r.st EXCEPT !.stdout =
                    Append(@, "error " \o ExprString(operator)
                              \o " " \o r.err.msg)]),
              newRuntimeError(r.err, operator.line,
                              currentProcedureName(r.st)))

\* the ProcedureType case leaving the name on the stack when the procedure
\* has failed
procedureReturn_KeepsNameOnError(r, operator) ==
    IF r.ok THEN Ret(popProcedureName(r.st), r.val)
    ELSE IF r.err.panic THEN r
    ELSE Fail(r.st, newRuntimeError(r.err, operator.line,
                                    currentProcedureName(r.st)))

\* the ProcedureType case of evalCallExpression once the procedure has
\* returned r
procedureReturn(r, operator) ==
    IF r.ok THEN Ret(popProcedureName(r.st), r.val)
    ELSE IF r.err.panic THEN r
    ELSE Fail(popProcedureName(r.st),
              newRuntimeError(r.err, operator.line,
                              currentProcedureName(r.st)))

evalCallExpression(exp, environment, st) ==
    LET operator == Operator(exp)
        r0 == eval(operator, environment, st)
    IN IF ~r0.ok
       THEN Fail(r0.st, newRuntimeError(r0.err, operator.line,
                                        currentProcedureName(r0.st)))
       ELSE
       LET val == r0.val
           isOrFn == Cell(r0.st, val).Type = "BuiltinFunction"
                       /\ ExprString(operator) = "or"
           isAndFn == Cell(r0.st, val).Type = "BuiltinFunction"
                       /\ ExprString(operator) = "and"
           ops == evalCallOperands(exp, 1, environment, r0.st, <<>>, isOrFn, isAndFn)
       IN IF ops.early
          THEN [st |-> ops.st, val |-> ops.val, ok |-> ops.ok, err |-> ops.err]
          ELSE
          LET \* the operands slice made by make([]*ReturnValue, len(exp.Operands))
              st1 == AllocArray(ops.st, ops.vals)
              operands == Slice(NewArray(ops.st), 0, Len(ops.vals))
              st2 == pushProcedureName(st1, ExprString(operator))
          IN CASE Cell(st1, val).Type = "BuiltinFunction" ->
                    builtinReturn(evalBuiltinFunction(Cell(st1, val).Data.fn, operands,
                                                      environment, st2), operator)
               [] Cell(st1, val).Type = "Procedure" ->
                    procedureReturn(evalProcedure(val, operands, environment, st2),
                                    operator)
               [] OTHER ->
                    Fail(st1, newRuntimeError(
                                 Errorf("unsupported operator type: "
                                        \o Cell(st1, val).Type \o "("
                                        \o ValueString(st1, val) \o ")"),
                                 operator.line, currentProcedureName(st1)))

forceBuiltin(parameters, st) ==
    IF parameters.len # 1
    THEN Fail(st, Errorf("'force' has been called with " \o ToString(parameters.len)
                         \o " arguments; it requires exactly 1 argument"))
    ELSE force(SliceAt(st, parameters, 1), st)

\* The reader.  A datum of the input is written as a node: a Number, a
\* String, an Identifier (a bare name), a Quote node whose one sub is the
\* datum after the quote mark, a List node whose subs are the data between
\* the parentheses.  The input is a sequence of chunks, a chunk what one Read
\* of the stream delivers: a sequence of lines, a line a sequence of data.
\* A list the input ends inside is a List node whose last sub is the EOF
\* token, a node of kind EOF; a closing parenthesis where a datum is to
\* start is a node of kind RightParen.

\* the Number the numeral of a Number token stands for
MakeNumber(tok, st) ==
    IF tok.name = "int" /\ tok.num >= MinInt64 /\ tok.num <= MaxInt64
    THEN RetNew(st, NumberCell(MakeInt64Number(tok.num)))
    ELSE RetNew(st, NumberCell(MakeFloat64Number(tok.num)))

RECURSIVE doRead(_, _)
RECURSIVE readList(_, _, _, _)

\* the loop of readList over the data between the parentheses, from datum i
\* on; elements holds the values read before i
readList(data, i, st, elements) ==
    IF i > Len(data) THEN RetNewList(st, elements)
    ELSE LET tok == data[i]
             r == CASE tok.k = "List" -> readList(tok.subs, 1, st, <<>>)
                    [] tok.k = "Number" -> MakeNumber(tok, st)
                    [] tok.k = "Quote" ->
                         LET inner == doRead(tok.subs[1], Alloc(st, SymbolCell("quote")))
                         IN IF ~inner.ok THEN inner
                            ELSE RetNewList(inner.st, <<NewHandle(st), inner.val>>)
                    [] tok.k \in {"EOF", "Invalid"} ->
                         Fail(st, PanicError("unreachable"))
                    [] OTHER -> RetNew(st, SymbolCell(tok.name))
         IN IF ~r.ok THEN r
            ELSE readList(data, i + 1, r.st, Append(elements, r.val))

\* the value of the datum the lexer is at
doRead(datum, st) ==
    CASE datum.k = "RightParen" -> Fail(st, Errorf("unexpected ')'"))
      [] datum.k = "List" -> readList(datum.subs, 1, st, <<>>)
      [] datum.k = "Number" -> MakeNumber(datum, st)
      [] datum.k = "Quote" ->
           LET tail == doRead(datum.subs[1], Alloc(st, SymbolCell("quote")))
           IN IF ~tail.ok THEN tail
              ELSE RetNewList(tail.st, <<NewHandle(st), tail.val>>)
      [] OTHER -> RetNew(st, SymbolCell(datum.name))

\* read(reader): a new lexer on the reader.  Its scanner takes the next chunk
\* off the stream and the lexer reads the first datum of the chunk's first
\* line; at the end of the stream the token is EOF, its Content empty.  The
\* lexer, and with it the rest of the chunk, is dropped on return.
read(st) ==
    IF st.stdin.next > Len(st.stdin.chunks)
    THEN RetNew(st, SymbolCell(""))
    ELSE doRead(st.stdin.chunks[st.stdin.next][1][1],
                [st EXCEPT !.stdin.next = @ + 1])

\* the builtin "read"
readBuiltin(parameters, st) ==
    IF parameters.len # 0
    THEN Fail(st, Errorf("'read' has been called with " \o ToString(parameters.len)
                         \o " arguments; it requires exactly 0 argument"))
    ELSE read(st)

\* apply handing the procedure everything after it: the list as one operand
applyOperands_WholeList(st, parameters) ==
    Slice(parameters.arr, parameters.off + 1, parameters.len - 1)

\* list.List().Elements: the operands apply hands to the procedure
applyOperands(st, parameters) ==
    LET lst == Param(st, parameters, 2)
    IN Slice(lst.Data.arr, lst.Data.off, lst.Data.len)

apply(parameters, environment, st) ==
    IF parameters.len < 2
    THEN Fail(st, Errorf("'apply' has been called with " \o ToString(parameters.len)
                         \o " arguments; it requires at least 2 arguments"))
    ELSE LET proc == SliceAt(st, parameters, 1)
             lst == Param(st, parameters, 2)
         IN IF lst.Type # "List"
            THEN Fail(st, Errorf("'apply' expect second argument to be list but got "
                                 \o lst.Type))
            ELSE CASE Cell(st, proc).Type = "BuiltinFunction" ->
                        evalBuiltinFunction(Cell(st, proc).Data.fn,
                                            applyOperands(st, parameters), environment, st)
                   [] Cell(st, proc).Type = "Procedure" ->
                        evalProcedure(proc, applyOperands(st, parameters), environment, st)
                   [] OTHER ->
                        Fail(st, Errorf("'apply' expect first argument to be "
                                        \o "procedure/builtinFunction but got " \o lst.Type))

\* the size check rejecting only a later list shorter than the first
mapSizesDiffer_OnlyShorter(elements, operandsList) ==
    Len(elements) < Len(operandsList)

\* len(list.Elements) != len(operandsList)
mapSizesDiffer(elements, operandsList) ==
    Len(elements) # Len(operandsList)

\* the loop of map over operandsList from index j on; operandsList[j] is the
\* backing array firstArray + j, res holds the results before j
RECURSIVE mapApply(_, _, _, _, _, _, _)

mapApply(proc, operandsList, firstArray, j, environment, st, res) ==
    LET \* the rest of round j of the loop once the call has returned r: an
        \* error ends map, a value is appended to res
        mapAppend(r) ==
            IF ~r.ok THEN r
            ELSE mapApply(proc, operandsList, firstArray, j + 1, environment,
                          r.st, Append(res, r.val))
    IN
    IF j > Len(operandsList) THEN RetNewList(st, res)
    ELSE mapAppend(IF Cell(st, proc).Type = "BuiltinFunction"
                   THEN evalBuiltinFunction(Cell(st, proc).Data.fn,
                            Slice(firstArray + j, 0, Len(operandsList[j])),
                            environment, st)
                   ELSE evalProcedure(proc,
                            Slice(firstArray + j, 0, Len(operandsList[j])),
                            environment, st))

map(parameters, environment, st) ==
    LET \* the loop of map over parameters[1:], from the parameter of (1-based)
        \* index i on: operandsList[j] collects element j of every list
        RECURSIVE mapOperandsList(_, _)
        mapOperandsList(i, operandsList) ==
            IF i > parameters.len
            THEN [ok |-> TRUE, err |-> NoError, operandsList |-> operandsList]
            ELSE LET val == Param(st, parameters, i)
                 IN IF val.Type # "List"
                    THEN [ok |-> FALSE, operandsList |-> <<>>,
                          err |-> Errorf("expect parameter to be list but got " \o val.Type)]
                    ELSE LET elements == Elements(st, val)
                         IN IF i = 2
                            THEN mapOperandsList(i + 1,
                                     [j \in 1..Len(elements) |-> <<elements[j]>>])
                            ELSE IF mapSizesDiffer(elements, operandsList)
                            THEN [ok |-> FALSE, operandsList |-> <<>>,
                                  err |-> Errorf("all lists must have same size")]
                            ELSE mapOperandsList(i + 1,
                                     [j \in 1..Len(operandsList) |->
                                         Append(operandsList[j], elements[j])])
    IN
    IF parameters.len < 2
    THEN Fail(st, Errorf("'assoc' has been called with " \o ToString(parameters.len)
                         \o " arguments; it requires at least 2 arguments"))
    ELSE LET proc == SliceAt(st, parameters, 1)
             ol == mapOperandsList(2, <<>>)
         IN IF ~ol.ok THEN Fail(st, ol.err)
            ELSE IF Cell(st, proc).Type \notin {"BuiltinFunction", "Procedure"}
            THEN Fail(st, Errorf("unknown procedure type " \o Cell(st, proc).Type))
            ELSE mapApply(proc, ol.operandsList, Len(st.arrays), 1, environment,
                          [st EXCEPT !.arrays = @ \o ol.operandsList], <<>>)

\* builtinFn.Fn(operands, e, environment); builtinFn is the name the
\* function was registered under
evalBuiltinFunction(builtinFn, operands, environment, st) ==
    CASE builtinFn = "+" -> plus(operands, st)
      [] builtinFn = "-" -> minus(operands, st)
      [] builtinFn \in {">", ">=", "<", "<=", "="} -> compareBuiltin(builtinFn, operands, st)
      [] builtinFn = "equal?" -> equalBuiltin(operands, st)
      [] builtinFn = "eq?" -> eqBuiltin(operands, st)
      [] builtinFn = "*" -> times(operands, st)
      [] builtinFn = "and" -> and(operands, st)
      [] builtinFn = "or" -> or(operands, st)
      [] builtinFn = "not" -> not(operands, st)
      [] builtinFn = "cons" -> cons(operands, st)
      [] builtinFn = "list" -> list(operands, st)
      [] builtinFn = "length" -> length(operands, st)
      [] builtinFn = "car" -> ConProcedureFactory(<<CON_OP_CAR>>, operands, st)
      [] builtinFn = "cdr" -> ConProcedureFactory(<<CON_OP_CDR>>, operands, st)
      [] builtinFn = "cadr" -> ConProcedureFactory(<<CON_OP_CDR, CON_OP_CAR>>, operands, st)
      [] builtinFn = "cddr" -> ConProcedureFactory(<<CON_OP_CDR, CON_OP_CDR>>, operands, st)
      [] builtinFn = "set-car!" -> setCar(operands, st)
      [] builtinFn = "set-cdr!" -> setCdr(operands, st)
      [] builtinFn = "null?" -> isNull(operands, st)
      [] builtinFn = "display" -> display(operands, st)
      [] builtinFn = "force" -> forceBuiltin(operands, st)
      [] builtinFn = "apply" -> apply(operands, environment, st)
      [] builtinFn = "map" -> map(operands, environment, st)
      [] builtinFn = "read" -> readBuiltin(operands, st)
      [] builtinFn = "remainder" -> remainder(operands, st)
      [] builtinFn = "random" -> random(operands, st)
      [] OTHER -> Fail(st, PanicError("no such builtin: " \o builtinFn))

\* the body loop of evalProcedure from form i on; result is the value of the
\* last form evaluated
evalProcedureBody(body, i, newEnv, st, result) ==
    IF i > Len(body) THEN Ret(st, result)
    ELSE LET r == eval(body[i], newEnv, st)
         IN IF ~r.ok THEN r
            ELSE evalProcedureBody(body, i + 1, newEnv, r.st, r.val)

CaneTakeArbitraryParameters(procedure) == procedure.OptionalTailParameter # ""

\* dynamic scope: the new frame enclosed by the caller's environment
procedureFrame_EnclosedByCaller(procedure, environment) ==
    [newEnvironment EXCEPT !.enclosing = environment]

\* the frame the body of a procedure runs in: a new frame enclosed by the
\* environment the procedure captured
procedureFrame(procedure, environment) ==
    [newEnvironment EXCEPT !.enclosing = procedure.Env]

\* the arity check letting a fixed-arity procedure take extra operands
arityError_AtLeast(procedure, operands) ==
    IF Len(procedure.Parameters) > operands.len
    THEN Errorf("expected at least " \o ToString(Len(procedure.Parameters))
                \o " arguments, got " \o ToString(operands.len))
    ELSE NoError

\* nil when the operand counts fit, the arity error otherwise
arityError(procedure, operands) ==
    IF CaneTakeArbitraryParameters(procedure)
    THEN IF Len(procedure.Parameters) > operands.len
         THEN Errorf("expected at least " \o ToString(Len(procedure.Parameters))
                     \o " arguments, got " \o ToString(operands.len))
         ELSE NoError
    ELSE IF Len(procedure.Parameters) # operands.len
         THEN Errorf("expected " \o ToString(Len(procedure.Parameters))
                     \o " arguments, got " \o ToString(operands.len))
         ELSE NoError

\* proc is the handle of the ProcedureValue
evalProcedure(proc, operands, environment, st) ==
    LET procedure == Cell(st, proc).Data
        aerr == arityError(procedure, operands)
        \* the loop binding parameter i, i+1, ... to the operands of the same
        \* index
        RECURSIVE bindParameters(_, _, _)
        bindParameters(frames, newEnv, i) ==
            IF i > Len(procedure.Parameters) THEN frames
            ELSE bindParameters(Put(frames, newEnv, procedure.Parameters[i],
                                    SliceAt(st, operands, i)),
                                newEnv, i + 1)
        \* the List bound to the rest parameter: operands[len(Parameters):]
        \* copied into a new slice
        tailArgs(st1) ==
            [i \in 1..(operands.len - Len(procedure.Parameters)) |->
                SliceAt(st1, operands, Len(procedure.Parameters) + i)]
    IN IF aerr # NoError THEN Fail(st, aerr)
       ELSE
       LET newEnv == Len(st.frames) + 1
           frames1 == Append(st.frames, procedureFrame(procedure, environment))
           frames2 == bindParameters(frames1, newEnv, 1)
           st1 == [st EXCEPT !.frames = frames2]
           rest == RetNewList(st1, tailArgs(st1))
           st2 == IF CaneTakeArbitraryParameters(procedure)
                  THEN [rest.st EXCEPT !.frames =
                           Put(@, newEnv, procedure.OptionalTailParameter, rest.val)]
                  ELSE st1
       IN evalProcedureBody(procedure.Body, 1, newEnv, st2, Nil)

force(val, st) ==
    LET c == Cell(st, val)
    IN IF c.Type # "Promise"
       THEN Fail(st, Errorf("expected promise type, got " \o c.Type))
       ELSE IF c.Data.EvaluatedValue # Nil
       THEN Ret(st, c.Data.EvaluatedValue)
       ELSE LET r == eval(c.Data.Expression, c.Data.Env,
                          [st EXCEPT !.forceEvals = Append(@, val)])
            IN IF ~r.ok THEN r
               ELSE Ret([r.st EXCEPT !.heap[val].Data.EvaluatedValue = r.val], r.val)

eval(expression, environment, st) ==
    LET \* strconv.ParseInt succeeds on an integer numeral that fits in 64 bits
        evalNumberLiteral(exp) ==
            IF exp.name = "int" /\ exp.num >= MinInt64 /\ exp.num <= MaxInt64
            THEN RetNew(st, NumberCell(MakeInt64Number(exp.num)))
            ELSE RetNew(st, NumberCell(MakeFloat64Number(exp.num)))
        evalIdentifier(exp) ==
            LET g == Get(st.frames, environment, exp.name)
            IN IF ~g.ok
               THEN Fail(st, Errorf("undefined identifier: " \o exp.name
                                    \o " on line " \o ToString(exp.line)))
               ELSE Ret(st, g.val)
        evalPrimitiveProcedure(exp) ==
            LET g == Get(st.frames, environment, exp.name)
            IN IF ~g.ok
               THEN Fail(st, PanicError("undefined primitive identifier: " \o exp.name))
               ELSE IF Cell(st, g.val).Type # "BuiltinFunction"
               THEN Fail(st, Errorf("identifier " \o exp.name \o " is not a builtin function"))
               ELSE Ret(st, g.val)
    IN
    CASE expression.k = "True"  -> RetNew(st, ConstantCell(TrueValue))
      [] expression.k = "False" -> RetNew(st, ConstantCell(FalseValue))
      [] expression.k = "Void"  -> RetNew(st, ConstantCell(VoidConst))
      [] expression.k = "Number" -> evalNumberLiteral(expression)
      [] expression.k = "String" -> RetNew(st, StringCell(expression.name))
      [] expression.k = "Symbol" -> RetNew(st, SymbolCell(expression.name))
      [] expression.k = "Define" -> evalDefineExpression(expression, environment, st)
      [] expression.k = "Identifier" -> evalIdentifier(expression)
      [] expression.k = "Call" -> evalCallExpression(expression, environment, st)
      [] expression.k = "Lambda" -> evalLambdaExpression(expression, environment, st)
      [] expression.k = "Primitive" -> evalPrimitiveProcedure(expression)
      [] expression.k = "If" -> evalIfExpression(expression, environment, st)
      [] expression.k = "Set" -> evalSetExpression(expression, environment, st)
      [] expression.k = "List" ->
            evalListExpression(expression, 1, environment, [st |-> st, vals |-> <<>>])
      [] expression.k = "Begin" -> evalBeginExpression(expression, 1, environment, st)
      [] expression.k = "Delay" -> evalDelayExpression(expression, environment, st)
      [] OTHER -> Fail(st, Errorf("unsupported expression type: " \o expression.k))

----------------------------------------------------------------------------
(* The lexer (package lexer).  A character is a string of length one, a    *)
(* line a sequence of characters; the input is the sequence of lines the   *)
(* bufio.Scanner delivers, the line terminators taken off.                 *)

isDigit(c) == c \in {"0", "1", "2", "3", "4", "5", "6", "7", "8", "9"}
isAlphabet(c) ==
    c \in {"a", "b", "c", "d", "e", "f", "g", "h", "i", "j", "k", "l", "m",
           "n", "o", "p", "q", "r", "s", "t", "u", "v", "w", "x", "y", "z",
           "A", "B", "C", "D", "E", "F", "G", "H", "I", "J", "K", "L", "M",
           "N", "O", "P", "Q", "R", "S", "T", "U", "V", "W", "X", "Y", "Z"}
isSpaceOrNewline(c) == c \in {" ", "\n", "\r", "\t"}
isComment(c) == c = ";"

\* the string of a sequence of characters
RECURSIVE Text(_)
Text(chars) == IF chars = <<>> THEN "" ELSE chars[1] \o Text(Tail(chars))

\* line[a:b]
Substring(line, a, b) == Text(SubSeq(line, a + 1, b))

Token(content, line, tokenType) ==
    [Content |-> content, Line |-> line, TokenType |-> tokenType]

\* lexer.New(reader): lines is what the scanner is to deliver, scanned the
\* number of lines it has delivered
NewLexer(lines) ==
    [lines |-> lines, scanned |-> 0, line |-> <<>>, lineNo |-> 0, column |-> 0]

\* l.line[i]
CharAt(l, i) == l.line[i + 1]

\* [l, content, ok, err]
readNumber(l, acceptDot) ==
    LET start == l.column - 1
        \* the loops over the digits
        RECURSIVE skipDigits(_)
        skipDigits(k) ==
            IF k.column < Len(k.line) /\ isDigit(CharAt(k, k.column))
            THEN skipDigits([k EXCEPT !.column = @ + 1])
            ELSE k
        \* after the digits and the fraction
        afterNumber(k) ==
            IF /\ k.column < Len(k.line)
               /\ CharAt(k, k.column) \notin {"(", ")"}
               /\ ~isSpaceOrNewline(CharAt(k, k.column))
            THEN [l |-> k, content |-> "", ok |-> FALSE,
                  err |-> "invalid character '" \o CharAt(k, k.column)
                          \o "' after number at line " \o ToString(k.lineNo)
                          \o ", column " \o ToString(k.column + 1)]
            ELSE [l |-> k, content |-> Substring(k.line, start, k.column),
                  ok |-> TRUE, err |-> ""]
        \* after the digits before the dot
        afterDigits(k) ==
            IF k.column < Len(k.line) /\ CharAt(k, k.column) = "."
            THEN IF ~acceptDot
                 THEN [l |-> k, content |-> "", ok |-> FALSE,
                       err |-> "invalid character '.' in number at line "
                               \o ToString(k.lineNo) \o ", column "
                               \o ToString(k.column + 1)]
                 ELSE afterNumber(skipDigits([k EXCEPT !.column = @ + 1]))
            ELSE afterNumber(k)
    IN afterDigits(skipDigits(l))

RECURSIVE skipWhitespace(_)
skipWhitespace(l) ==
    IF l.column < Len(l.line) /\ isSpaceOrNewline(CharAt(l, l.column))
    THEN skipWhitespace([l EXCEPT !.column = @ + 1])
    ELSE l

\* [l, ok]: ok is false, and the lexer as it was, when there are no more
\* lines to read
readNextLine(l) ==
    IF l.scanned >= Len(l.lines)
    THEN [l |-> l, ok |-> FALSE]
    ELSE [l |-> [l EXCEPT !.scanned = @ + 1,
                          !.line = l.lines[l.scanned + 1],
                          !.lineNo = @ + 1,
                          !.column = 0],
          ok |-> TRUE]

keywordMap ==
    ("define" :> "Define") @@ ("if" :> "If") @@ ("lambda" :> "Lambda")
      @@ ("let" :> "Let") @@ ("begin" :> "Begin") @@ ("set!" :> "Set!")
      @@ ("cond" :> "Cond") @@ ("else" :> "Else") @@ ("and" :> "And")
      @@ ("or" :> "Or") @@ ("true" :> "True") @@ ("false" :> "False")

\* the loop of readIdentifierOrKeyword and of readSharp over the characters
\* up to a space or a parenthesis
RECURSIVE skipWord(_)
skipWord(l) ==
    IF /\ l.column < Len(l.line)
       /\ ~isSpaceOrNewline(CharAt(l, l.column))
       /\ CharAt(l, l.column) \notin {"(", ")"}
    THEN skipWord([l EXCEPT !.column = @ + 1])
    ELSE l

\* [l, tok]
readIdentifierOrKeyword(l) ==
    LET start == l.column - 1
        wordToken(k) ==
            [l |-> k,
             tok |-> Token(Substring(k.line, start, k.column), k.lineNo,
                           IF Substring(k.line, start, k.column) \in DOMAIN keywordMap
                           THEN keywordMap[Substring(k.line, start, k.column)]
                           ELSE "Identifier")]
    IN wordToken(skipWord(l))

\* the token NextToken makes of what a reading function returned: the
\* Invalid token of its error, or the token of the given type
tokenOf(r, tokenType) ==
    IF ~r.ok
    THEN [l |-> r.l, tok |-> Token(r.err, r.l.lineNo, "Invalid")]
    ELSE [l |-> r.l, tok |-> Token(r.content, r.l.lineNo, tokenType)]

\* readString, and the token NextToken makes of it: [l, tok]
readString(l) ==
    LET \* start is where the part of the string on the current line
        \* begins, content the parts on the lines before
        RECURSIVE loop(_, _, _)
        loop(k, start, content) ==
            IF k.column = Len(k.line)
            THEN IF ~readNextLine(k).ok
                 THEN [l |-> k, ok |-> FALSE, content |-> "",
                       err |-> "unterminated string at line " \o ToString(k.lineNo)
                               \o ", column " \o ToString(k.column)]
                 ELSE loop(readNextLine(k).l, 0,
                           content \o Substring(k.line, start, k.column))
            ELSE IF CharAt(k, k.column) # "\""
            THEN loop([k EXCEPT !.column = @ + 1], start, content)
            ELSE [l |-> [k EXCEPT !.column = @ + 1], ok |-> TRUE, err |-> "",
                  content |-> content \o Substring(k.line, start, k.column)]
    IN tokenOf(loop(l, l.column, ""), "String")

\* [l, ok]
skipComment(l) ==
    IF l.column < Len(l.line) /\ CharAt(l, l.column) = ";"
    THEN readNextLine(l)
    ELSE [l |-> l, ok |-> TRUE]

isLangDirective(l) ==
    LET target == <<"#", "l", "a", "n", "g", " ">>
    IN \A i \in 0..(Len(target) - 1) :
          l.column + i < Len(l.line) /\ CharAt(l, l.column + i) = target[i + 1]

\* [l, tok]
readSharp(l) ==
    LET start == l.column - 1
        sharpToken(k) ==
            IF Substring(k.line, start, k.column) \in {"#t", "#true"}
            THEN [l |-> k,
                  tok |-> Token(Substring(k.line, start, k.column), k.lineNo, "True")]
            ELSE IF Substring(k.line, start, k.column) \in {"#f", "#false"}
            THEN [l |-> k,
                  tok |-> Token(Substring(k.line, start, k.column), k.lineNo, "False")]
            ELSE [l |-> k,
                  tok |-> Token("invalid token after #: "
                                \o Substring(k.line, start, k.column)
                                \o " at line " \o ToString(k.lineNo)
                                \o ", column " \o ToString(start),
                                k.lineNo, "Invalid")]
    IN sharpToken(skipWord(l))

\* [l, tok]: the token and the lexer after it
NextToken(l) ==
    LET \* the loop at the head, over the blanks, the comments and the #lang
        \* lines before the token: [l, ok], ok false at the end of the input
        RECURSIVE skipToToken(_), skipBlanks(_)
        \* the second half of a round of the loop
        skipBlanks(n) ==
            IF ~n.ok THEN n
            ELSE IF ~skipComment(skipWhitespace(n.l)).ok
            THEN [l |-> skipWhitespace(n.l), ok |-> FALSE]
            ELSE skipToToken(skipComment(skipWhitespace(n.l)).l)
        skipToToken(k) ==
            IF k.column = Len(k.line) \/ isLangDirective(k)
            THEN skipBlanks(readNextLine(k))
            ELSE IF isSpaceOrNewline(CharAt(k, k.column)) \/ isComment(CharAt(k, k.column))
            THEN skipBlanks([l |-> k, ok |-> TRUE])
            ELSE [l |-> k, ok |-> TRUE]
        \* hasNextChar && !isSpaceOrNewline(nextChar)
        hasNextWord(k) ==
            k.column < Len(k.line) /\ ~isSpaceOrNewline(CharAt(k, k.column))
        \* < and >, with the = after them
        orEqual(k, content, tokenType) ==
            IF k.column < Len(k.line) /\ CharAt(k, k.column) = "="
            THEN [l |-> [k EXCEPT !.column = @ + 1],
                  tok |-> Token(content \o "=", k.lineNo, tokenType \o "Equal")]
            ELSE [l |-> k, tok |-> Token(content, k.lineNo, tokenType)]
        \* the number after a dot, the dot put before it
        dotNumber(r) == IF r.ok THEN [r EXCEPT !.content = "." \o @] ELSE r
        \* the switch on firstChar; k is the lexer after l.column++
        tokenAt(k, firstChar) ==
            CASE firstChar = "(" -> [l |-> k, tok |-> Token("(", k.lineNo, "LeftParen")]
              [] firstChar = ")" -> [l |-> k, tok |-> Token(")", k.lineNo, "RightParen")]
              [] firstChar \in {"+", "-"} ->
                   IF hasNextWord(k)
                   THEN IF isDigit(CharAt(k, k.column))
                        THEN tokenOf(readNumber(k, TRUE), "Number")
                        ELSE readIdentifierOrKeyword(k)
                   ELSE [l |-> k,
                         tok |-> Token(firstChar, k.lineNo,
                                       IF firstChar = "+" THEN "Plus" ELSE "Minus")]
              [] firstChar \in {"*", "/"} ->
                   IF hasNextWord(k)
                   THEN readIdentifierOrKeyword(k)
                   ELSE [l |-> k,
                         tok |-> Token(firstChar, k.lineNo,
                                       IF firstChar = "*" THEN "Asterisk" ELSE "Slash")]
              [] firstChar = "\"" -> readString(k)
              [] firstChar = "'" -> [l |-> k, tok |-> Token("'", k.lineNo, "Quote")]
              [] firstChar = "<" -> orEqual(k, "<", "Less")
              [] firstChar = ">" -> orEqual(k, ">", "Greater")
              [] firstChar = "#" -> readSharp(k)
              [] firstChar = "." ->
                   IF hasNextWord(k)
                   THEN IF isDigit(CharAt(k, k.column))
                        THEN tokenOf(dotNumber(readNumber(k, FALSE)), "Number")
                        ELSE IF isAlphabet(CharAt(k, k.column))
                        THEN [readIdentifierOrKeyword(k) EXCEPT
                                 !.tok.TokenType = "Identifier"]
                        ELSE [l |-> k,
                              tok |-> Token("invalid character '" \o CharAt(k, k.column)
                                            \o "' after . at line " \o ToString(k.lineNo)
                                            \o ", column " \o ToString(k.column),
                                            k.lineNo, "Invalid")]
                   ELSE [l |-> k, tok |-> Token(".", k.lineNo, "Dot")]
              [] OTHER ->
                   IF isDigit(firstChar)
                   THEN tokenOf(readNumber(k, TRUE), "Number")
                   ELSE readIdentifierOrKeyword(k)
        \* after the loop at the head
        tokenAfter(s) ==
            IF ~s.ok
            THEN [l |-> s.l, tok |-> Token("", s.l.lineNo, "EOF")]
            ELSE tokenAt([s.l EXCEPT !.column = @ + 1], CharAt(s.l, s.l.column))
    IN tokenAfter(skipToToken(l))

----------------------------------------------------------------------------
(* The parser (package parser).  The lexer the parser reads from is the    *)
(* sequence of the tokens its NextToken calls return before the EOF token, *)
(* which it goes on returning.                                             *)

\* the zero Token
NoToken == Token("", 0, "None")

\* parser.New(l), l the lexer that is to return the tokens toks: next is
\* the index of the token the next call of NextToken returns
NewParser(toks) ==
    [l |-> [toks |-> toks, next |-> 1], prevToken |-> NoToken, currentToken |-> NoToken]

nextToken(p) ==
    LET \* p.l.NextToken()
        token == IF p.l.next <= Len(p.l.toks)
                 THEN p.l.toks[p.l.next]
                 ELSE Token("", IF p.l.toks = <<>> THEN 0
                                ELSE p.l.toks[Len(p.l.toks)].Line,
                            "EOF")
    IN [l |-> [p.l EXCEPT !.next = IF @ <= Len(p.l.toks) THEN @ + 1 ELSE @],
        prevToken |-> p.currentToken,
        currentToken |-> token]

\* [p, ok]
match(p, t) ==
    IF p.currentToken.TokenType = t
    THEN [p |-> nextToken(p), ok |-> TRUE]
    ELSE [p |-> p, ok |-> FALSE]

NewParsingError(token, message) == [Message |-> message, Token |-> token]

\* the nil error
NoParsingError == NewParsingError(NoToken, "")

\* what a parsing function returns, with the parser after it
Parsed(p, exp) == [p |-> p, exp |-> exp, ok |-> TRUE, err |-> NoParsingError]
\* exp is the nil Expression
ParseFail(p, token, message) ==
    [p |-> p, exp |-> Node("Nil", "", 0, <<>>, <<>>, "", 0), ok |-> FALSE,
     err |-> NewParsingError(token, message)]

\* return nil, NewParsingError(p.currentToken, err.Error()), r what the
\* failed call returned
Rewrap(r) == ParseFail(r.p, r.p.currentToken, r.err.Message)

\* the numerals strconv.ParseFloat is given here, with the numbers they denote
Numerals ==
    ("0" :> NumberLiteral(0, 0)) @@ ("1" :> NumberLiteral(1, 0))
      @@ ("2" :> NumberLiteral(2, 0)) @@ ("3" :> NumberLiteral(3, 0))
      @@ ("-1" :> NumberLiteral(-1, 0)) @@ ("+2" :> NumberLiteral(2, 0))
      @@ ("1.0" :> FloatLiteral(1, 0))

parseNumber(p) ==
    IF p.currentToken.Content \notin DOMAIN Numerals
    THEN ParseFail(p, p.currentToken,
                   "strconv.ParseFloat: parsing \"" \o p.currentToken.Content
                   \o "\": invalid syntax")
    ELSE Parsed(nextToken(p),
                [Numerals[p.currentToken.Content] EXCEPT !.line = p.currentToken.Line])

parseString(p) ==
    Parsed(nextToken(p), StringLiteral(p.currentToken.Content, p.currentToken.Line))

parsePrimitiveProcedure(p) ==
    Parsed(nextToken(p),
           PrimitiveProcedureExpression(p.currentToken.Content, p.currentToken.Line))

parseIdentifier(p) ==
    Parsed(nextToken(p), IdentifierExpression(p.currentToken.Content, p.currentToken.Line))

\* the first expression of a clause alone
condBody_FirstOnly(exps, line) == exps[1]

\* the consequent of a clause of cond and the alternative of its else
\* clause: one expression, or the BeginExpression of several, under the
\* token of the given line
condBody(exps, line) == IF Len(exps) = 1 THEN exps[1] ELSE BeginExpression(exps, line)

\* the let of two bindings as the let in a let: the second binding sees
\* the first
letBody_Sequential(b, parameterNames, parameterExprs, firstToken) ==
    IF ~b.ok
    THEN ParseFail(b.p, b.err.Token, b.err.Message)
    ELSE IF b.exps = <<>>
    THEN ParseFail(b.p, b.p.currentToken,
                   "expected at least one expression in let body")
    ELSE IF Len(parameterNames) = 2
    THEN Parsed(nextToken(b.p),
                CallExpression(
                    LambdaExpression(
                        <<parameterNames[1]>>, "",
                        <<CallExpression(
                            LambdaExpression(<<parameterNames[2]>>, "", b.exps,
                                             firstToken.Line),
                            <<parameterExprs[2]>>, firstToken.Line)>>,
                        firstToken.Line),
                    <<parameterExprs[1]>>, firstToken.Line))
    ELSE Parsed(nextToken(b.p),
                CallExpression(LambdaExpression(parameterNames, "", b.exps,
                                                firstToken.Line),
                               parameterExprs, firstToken.Line))

\* parseLetExpression after the bindings, b the body that has been read
letBody(b, parameterNames, parameterExprs, firstToken) ==
    IF ~b.ok
    THEN ParseFail(b.p, b.err.Token, b.err.Message)
    ELSE IF b.exps = <<>>
    THEN ParseFail(b.p, b.p.currentToken,
                   "expected at least one expression in let body")
    ELSE Parsed(nextToken(b.p),
                CallExpression(LambdaExpression(parameterNames, "", b.exps,
                                                firstToken.Line),
                               parameterExprs, firstToken.Line))

RECURSIVE parseExpression(_), parseGroupExpression(_), parseCallExpression(_),
          parseBody(_, _), parseIfExpression(_), parseDefineExpression(_),
          parseLambdaExpression(_), parseLetExpression(_), parseCondExpression(_),
          parseSetExpression(_), parseBeginExpression(_), parseStreamExpression(_),
          parseDelayExpression(_), parseQuoteListExpression(_),
          parseQuoteExpression(_)

\* the loop for p.currentToken.TokenType != RightParen { parseExpression },
\* which the bodies of define, lambda, let, begin and the clauses of cond
\* are read by: [p, exps, ok, err]
parseBody(p, exps) ==
    LET append(r) ==
            IF ~r.ok
            THEN [p |-> r.p, exps |-> <<>>, ok |-> FALSE,
                  err |-> NewParsingError(r.p.currentToken, r.err.Message)]
            ELSE parseBody(r.p, Append(exps, r.exp))
    IN IF p.currentToken.TokenType # "RightParen"
       THEN append(parseExpression(p))
       ELSE [p |-> p, exps |-> exps, ok |-> TRUE, err |-> NoParsingError]

parseCallExpression(p) ==
    LET \* the loop over the operands; currentToken becomes the first token
        \* of each operand in turn, and is the LeftParenToken of the call
        \* in the end
        RECURSIVE callOperands(_, _, _, _), callOperand(_, _, _, _)
        callOperands(q, operator, operands, currentToken) ==
            IF q.currentToken.TokenType # "RightParen"
            THEN callOperand(parseExpression(q), operator, operands, q.currentToken)
            ELSE Parsed(nextToken(q),
                        CallExpression(operator, operands, currentToken.Line))
        callOperand(r, operator, operands, currentToken) ==
            IF ~r.ok
            THEN ParseFail(r.p, currentToken, r.err.Message)
            ELSE callOperands(r.p, operator, Append(operands, r.exp), currentToken)
        callOperator(r, currentToken) ==
            IF ~r.ok
            THEN ParseFail(r.p, currentToken, r.err.Message)
            ELSE callOperands(r.p, r.exp, <<>>, currentToken)
    IN callOperator(parseExpression(p), p.currentToken)

parseIfExpression(p) ==
    LET firstToken == p.currentToken
        ifEnd(alternative, predicate, consequent) ==
            IF ~alternative.ok THEN Rewrap(alternative)
            ELSE IF alternative.p.currentToken.TokenType # "RightParen"
            THEN ParseFail(alternative.p, alternative.p.currentToken,
                           "expected ')' after if expression")
            ELSE Parsed(nextToken(alternative.p),
                        IfExpression(predicate, consequent, alternative.exp,
                                     firstToken.Line))
        ifAlternative(consequent, predicate) ==
            IF ~consequent.ok THEN Rewrap(consequent)
            ELSE IF consequent.p.currentToken.TokenType # "RightParen"
            THEN ifEnd(parseExpression(consequent.p), predicate, consequent.exp)
            ELSE Parsed(nextToken(consequent.p),
                        IfExpression(predicate, consequent.exp, Void, firstToken.Line))
        ifConsequent(predicate) ==
            IF ~predicate.ok THEN Rewrap(predicate)
            ELSE ifAlternative(parseExpression(predicate.p), predicate.exp)
    IN ifConsequent(parseExpression(nextToken(p)))

parseDefineExpression(p) ==
    LET firstToken == p.currentToken
        \* the loop over the parameters of the function form: [p,
        \* parameters, rest, ok, err], p at the ) of the list
        RECURSIVE defineParameters(_, _)
        defineParameters(q, parameters) ==
            IF q.currentToken.TokenType = "RightParen"
            THEN [p |-> q, parameters |-> parameters, rest |-> "", ok |-> TRUE,
                  err |-> NoParsingError]
            ELSE IF q.currentToken.TokenType = "Dot"
            THEN IF nextToken(q).currentToken.TokenType # "Identifier"
                 THEN [p |-> nextToken(q), parameters |-> <<>>, rest |-> "",
                       ok |-> FALSE,
                       err |-> NewParsingError(nextToken(q).currentToken,
                                               "expected identifier in parameter list")]
                 ELSE IF nextToken(nextToken(q)).currentToken.TokenType = "RightParen"
                 THEN [p |-> nextToken(nextToken(q)), parameters |-> parameters,
                       rest |-> nextToken(q).currentToken.Content, ok |-> TRUE,
                       err |-> NoParsingError]
                 ELSE [p |-> nextToken(nextToken(q)), parameters |-> <<>>,
                       rest |-> "", ok |-> FALSE,
                       err |-> NewParsingError(
                                   nextToken(nextToken(q)).currentToken,
                                   "expected ')' after optional tail parameter")]
            ELSE IF q.currentToken.TokenType # "Identifier"
            THEN [p |-> q, parameters |-> <<>>, rest |-> "", ok |-> FALSE,
                  err |-> NewParsingError(q.currentToken,
                                          "expected identifier in parameter list")]
            ELSE defineParameters(nextToken(q),
                                  Append(parameters, q.currentToken.Content))
        \* the function form after its body
        defineBody(b, name, parameters, rest) ==
            IF ~b.ok
            THEN ParseFail(b.p, b.err.Token, b.err.Message)
            ELSE IF b.exps = <<>>
            THEN ParseFail(b.p, b.p.currentToken,
                           "expected at least one expression in function body")
            ELSE Parsed(nextToken(b.p),
                        DefineExpression(name,
                                         LambdaExpression(parameters, rest, b.exps,
                                                          NoToken.Line),
                                         firstToken.Line))
        \* the function form after its parameters
        defineFunction(ps, name) ==
            IF ~ps.ok
            THEN ParseFail(ps.p, ps.err.Token, ps.err.Message)
            ELSE defineBody(parseBody(nextToken(ps.p), <<>>), name, ps.parameters,
                            ps.rest)
        \* the variable form after its value
        defineValue(r, name) ==
            IF ~r.ok THEN Rewrap(r)
            ELSE IF r.p.currentToken.TokenType # "RightParen"
            THEN ParseFail(r.p, r.p.currentToken, "expected ')' after define expression")
            ELSE Parsed(nextToken(r.p), DefineExpression(name, r.exp, firstToken.Line))
        \* q is at the token after define
        defineForm(q) ==
            IF q.currentToken.TokenType = "LeftParen"
            THEN IF nextToken(q).currentToken.TokenType # "Identifier"
                 THEN ParseFail(nextToken(q), nextToken(q).currentToken,
                                "expected identifier after '(' in define")
                 ELSE defineFunction(defineParameters(nextToken(nextToken(q)), <<>>),
                                     nextToken(q).currentToken.Content)
            ELSE IF q.currentToken.TokenType # "Identifier"
            THEN ParseFail(q, q.currentToken, "expected identifier after define")
            ELSE defineValue(parseExpression(nextToken(q)), q.currentToken.Content)
    IN defineForm(nextToken(p))

parseLambdaExpression(p) ==
    LET firstToken == p.currentToken
        \* the loop over the parameters: [p, parameters, ok, err], p at the
        \* ) of the list
        RECURSIVE lambdaParameters(_, _)
        lambdaParameters(q, parameters) ==
            IF q.currentToken.TokenType = "RightParen"
            THEN [p |-> q, parameters |-> parameters, ok |-> TRUE,
                  err |-> NoParsingError]
            ELSE IF q.currentToken.TokenType # "Identifier"
            THEN [p |-> q, parameters |-> <<>>, ok |-> FALSE,
                  err |-> NewParsingError(q.currentToken,
                                          "expected identifier in parameter list")]
            ELSE lambdaParameters(nextToken(q),
                                  Append(parameters, q.currentToken.Content))
        lambdaBody(b, parameters) ==
            IF ~b.ok
            THEN ParseFail(b.p, b.err.Token, b.err.Message)
            ELSE IF b.exps = <<>>
            THEN ParseFail(b.p, b.p.currentToken,
                           "expected at least one expression in lambda body")
            ELSE Parsed(nextToken(b.p),
                        LambdaExpression(parameters, "", b.exps, firstToken.Line))
        lambdaForm(ps) ==
            IF ~ps.ok
            THEN ParseFail(ps.p, ps.err.Token, ps.err.Message)
            ELSE lambdaBody(parseBody(nextToken(ps.p), <<>>), ps.parameters)
    IN IF nextToken(p).currentToken.TokenType # "LeftParen"
       THEN ParseFail(nextToken(p), nextToken(p).currentToken,
                      "expected '(' after lambda")
       ELSE lambdaForm(lambdaParameters(nextToken(nextToken(p)), <<>>))

parseLetExpression(p) ==
    LET firstToken == p.currentToken
        \* the loop over the bindings
        RECURSIVE letBindings(_, _, _), letBinding(_, _, _, _)
        letBindings(q, parameterNames, parameterExprs) ==
            IF q.currentToken.TokenType = "RightParen"
            THEN letBody(parseBody(nextToken(q), <<>>), parameterNames,
                         parameterExprs, firstToken)
            ELSE IF q.currentToken.TokenType # "LeftParen"
            THEN ParseFail(q, q.currentToken, "expected '(' in binding list")
            ELSE IF nextToken(q).currentToken.TokenType # "Identifier"
            THEN ParseFail(nextToken(q), nextToken(q).currentToken,
                           "expected identifier in binding")
            ELSE letBinding(parseExpression(nextToken(nextToken(q))),
                            nextToken(q).currentToken.Content,
                            parameterNames, parameterExprs)
        letBinding(r, parameterName, parameterNames, parameterExprs) ==
            IF ~r.ok THEN Rewrap(r)
            ELSE IF r.p.currentToken.TokenType # "RightParen"
            THEN ParseFail(r.p, r.p.currentToken, "expected ')' after binding")
            ELSE letBindings(nextToken(r.p), Append(parameterNames, parameterName),
                             Append(parameterExprs, r.exp))
    IN IF nextToken(p).currentToken.TokenType # "LeftParen"
       THEN ParseFail(nextToken(p), nextToken(p).currentToken, "expected '(' after let")
       ELSE letBindings(nextToken(nextToken(p)), <<>>, <<>>)

\* The IfExpressions parseCondExpression has made, in the order it made
\* them, each one the Alternative of the one before it, are kept as the
\* sequence ifs of their <<test, consequent>>; the Alternative of the last
\* one is given in the end, and every one of them has the token of cond.
parseCondExpression(p) ==
    LET ifFirstToken == p.currentToken
        RECURSIVE condChain(_, _)
        condChain(ifs, alternative) ==
            IF Len(ifs) = 1
            THEN IfExpression(ifs[1][1], ifs[1][2], alternative, ifFirstToken.Line)
            ELSE IfExpression(ifs[1][1], ifs[1][2],
                              condChain(Tail(ifs), alternative), ifFirstToken.Line)
        \* the else clause after its expressions
        condElse(b, ifs, firstToken) ==
            IF ~b.ok
            THEN ParseFail(b.p, b.err.Token, b.err.Message)
            ELSE IF b.exps = <<>>
            THEN ParseFail(b.p, b.p.currentToken,
                           "expected at least one expression in cond clause")
            ELSE IF ~match(b.p, "RightParen").ok
            THEN ParseFail(b.p, b.p.currentToken,
                           "expected ')' at the end of else clause")
            ELSE IF ~match(match(b.p, "RightParen").p, "RightParen").ok
            THEN ParseFail(match(b.p, "RightParen").p,
                           match(b.p, "RightParen").p.currentToken,
                           "expected ')' after cond expression")
            ELSE Parsed(match(match(b.p, "RightParen").p, "RightParen").p,
                        condChain(ifs, condBody(b.exps, firstToken.Line)))
        \* after the loop over the clauses
        condEnd(q, ifs) ==
            IF ifs = <<>>
            THEN ParseFail(q, q.currentToken, "expected at least one cond clause")
            ELSE IF q.currentToken.TokenType # "Else"
            THEN IF ~match(q, "RightParen").ok
                 THEN ParseFail(q, q.currentToken, "expected ')' after cond expression")
                 ELSE Parsed(match(q, "RightParen").p, condChain(ifs, Void))
            ELSE condElse(parseBody(nextToken(q), <<>>), ifs, q.currentToken)
        \* the loop over the clauses
        RECURSIVE condClauses(_, _), condClause(_, _), condConsequent(_, _, _)
        condClauses(q, ifs) ==
            IF q.currentToken.TokenType = "RightParen"
            THEN condEnd(q, ifs)
            ELSE IF ~match(q, "LeftParen").ok
            THEN ParseFail(q, q.currentToken, "expected '(' in cond clause")
            ELSE IF match(q, "LeftParen").p.currentToken.TokenType = "Else"
            THEN condEnd(match(q, "LeftParen").p, ifs)
            ELSE condClause(parseExpression(match(q, "LeftParen").p), ifs)
        condClause(test, ifs) ==
            IF ~test.ok THEN Rewrap(test)
            ELSE condConsequent(parseBody(test.p, <<>>), test.exp, ifs)
        condConsequent(b, test, ifs) ==
            IF ~b.ok
            THEN ParseFail(b.p, b.err.Token, b.err.Message)
            ELSE IF b.exps = <<>>
            THEN ParseFail(b.p, b.p.currentToken,
                           "expected at least one expression in cond clause")
            ELSE IF ~match(b.p, "RightParen").ok
            THEN ParseFail(b.p, b.p.currentToken, "expected ')' after cond clause")
            ELSE condClauses(match(b.p, "RightParen").p,
                             Append(ifs, <<test, condBody(b.exps, b.exps[1].line)>>))
    IN condClauses(nextToken(p), <<>>)

parseSetExpression(p) ==
    LET setValue(value, name) ==
            IF ~value.ok THEN Rewrap(value)
            ELSE IF ~match(value.p, "RightParen").ok
            THEN ParseFail(value.p, value.p.currentToken,
                           "expected ')' at the end of set expression")
            ELSE Parsed(match(value.p, "RightParen").p,
                        SetExpression(name, value.exp, NoToken.Line))
    IN IF nextToken(p).currentToken.TokenType # "Identifier"
       THEN ParseFail(nextToken(p), nextToken(p).currentToken,
                      "expected identifier after set!")
       ELSE setValue(parseExpression(nextToken(nextToken(p))),
                     nextToken(p).currentToken.Content)

parseBeginExpression(p) ==
    LET beginEnd(b) ==
            IF ~b.ok
            THEN ParseFail(b.p, b.err.Token, b.err.Message)
            ELSE IF b.exps = <<>>
            THEN ParseFail(b.p, b.p.currentToken,
                           "expected at least one expression in begin")
            ELSE Parsed(nextToken(b.p), BeginExpression(b.exps, p.currentToken.Line))
    IN beginEnd(parseBody(nextToken(p), <<>>))

\* the StreamExpression is the node Stream of the two expressions
parseStreamExpression(p) ==
    LET streamEnd(cdrExpression, carExpression) ==
            IF ~cdrExpression.ok THEN Rewrap(cdrExpression)
            ELSE IF ~match(cdrExpression.p, "RightParen").ok
            THEN ParseFail(cdrExpression.p, cdrExpression.p.currentToken,
                           "expected ')' at the end of delay expression")
            ELSE Parsed(match(cdrExpression.p, "RightParen").p,
                        Node("Stream", "", 0, <<carExpression, cdrExpression.exp>>,
                             <<>>, "", p.currentToken.Line))
        streamCdr(carExpression) ==
            IF ~carExpression.ok THEN Rewrap(carExpression)
            ELSE streamEnd(parseExpression(carExpression.p), carExpression.exp)
    IN streamCdr(parseExpression(nextToken(p)))

parseDelayExpression(p) ==
    LET delayEnd(r) ==
            IF ~r.ok THEN Rewrap(r)
            ELSE IF ~match(r.p, "RightParen").ok
            THEN ParseFail(r.p, r.p.currentToken,
                           "expected ')' at the end of delay expression")
            ELSE Parsed(match(r.p, "RightParen").p,
                        DelayExpression(r.exp, p.currentToken.Line))
    IN delayEnd(parseExpression(nextToken(p)))

parseGroupExpression(p) ==
    CASE nextToken(p).currentToken.TokenType = "Define" -> parseDefineExpression(nextToken(p))
      [] nextToken(p).currentToken.TokenType = "Let" -> parseLetExpression(nextToken(p))
      [] nextToken(p).currentToken.TokenType = "Begin" -> parseBeginExpression(nextToken(p))
      [] nextToken(p).currentToken.TokenType = "Set!" -> parseSetExpression(nextToken(p))
      [] nextToken(p).currentToken.TokenType = "Lambda" -> parseLambdaExpression(nextToken(p))
      [] nextToken(p).currentToken.TokenType = "If" -> parseIfExpression(nextToken(p))
      [] nextToken(p).currentToken.TokenType = "Cond" -> parseCondExpression(nextToken(p))
      [] nextToken(p).currentToken.TokenType = "RightParen" ->
           Parsed(nextToken(nextToken(p)), ListExpression(<<>>, NoToken.Line))
      [] nextToken(p).currentToken.TokenType = "Delay" -> parseDelayExpression(nextToken(p))
      [] nextToken(p).currentToken.TokenType = "ConsStream" -> parseStreamExpression(nextToken(p))
      [] OTHER -> parseCallExpression(nextToken(p))

parseQuoteListExpression(p) ==
    LET firstToken == p.currentToken
        \* the loop over the elements
        RECURSIVE quoteElements(_, _), quoteElement(_, _)
        quoteElements(q, elements) ==
            CASE q.currentToken.TokenType = "RightParen" ->
                   Parsed(nextToken(q), ListExpression(elements, firstToken.Line))
              [] q.currentToken.TokenType = "LeftParen" ->
                   quoteElement(parseQuoteListExpression(nextToken(q)), elements)
              [] q.currentToken.TokenType = "Number" ->
                   quoteElement(parseNumber(q), elements)
              [] q.currentToken.TokenType = "String" ->
                   quoteElement(parseString(q), elements)
              [] q.currentToken.TokenType \in {"EOF", "Invalid"} ->
                   ParseFail(q, q.currentToken,
                             "unexpected token: " \o q.currentToken.TokenType)
              [] OTHER ->
                   quoteElements(nextToken(q),
                                 Append(elements,
                                        SymbolExpression(q.currentToken.Content,
                                                         q.currentToken.Line)))
        quoteElement(r, elements) ==
            IF ~r.ok THEN Rewrap(r)
            ELSE quoteElements(r.p, Append(elements, r.exp))
    IN quoteElements(p, <<>>)

\* p is at the quote; the NestedSymbolExpression is the node NestedSymbol
\* of the quoted expression
parseQuoteExpression(p) ==
    LET nestedSymbol(r) ==
            IF ~r.ok THEN Rewrap(r)
            ELSE Parsed(r.p, Node("NestedSymbol", "", 0, <<r.exp>>, <<>>, "",
                                  p.currentToken.Line))
    IN CASE nextToken(p).currentToken.TokenType = "LeftParen" ->
              parseQuoteListExpression(nextToken(nextToken(p)))
         [] nextToken(p).currentToken.TokenType = "Number" -> parseNumber(nextToken(p))
         [] nextToken(p).currentToken.TokenType = "String" -> parseString(nextToken(p))
         [] nextToken(p).currentToken.TokenType \in {"EOF", "RightParen"} ->
              ParseFail(nextToken(p), nextToken(p).currentToken,
                        "unexpected token: " \o nextToken(p).currentToken.TokenType)
         [] nextToken(p).currentToken.TokenType = "Quote" ->
              nestedSymbol(parseQuoteExpression(nextToken(p)))
         [] OTHER ->
              Parsed(nextToken(nextToken(p)),
                     SymbolExpression(nextToken(p).currentToken.Content,
                                      p.currentToken.Line))

parseExpression(p) ==
    CASE p.currentToken.TokenType = "Number" -> parseNumber(p)
      [] p.currentToken.TokenType = "String" -> parseString(p)
      [] p.currentToken.TokenType = "LeftParen" -> parseGroupExpression(p)
      [] p.currentToken.TokenType = "EOF" -> ParseFail(p, p.currentToken, "EOF")
      [] p.currentToken.TokenType \in
           {"Plus", "Minus", "Asterisk", "Slash", "Greater", "GreaterEqual", "Less",
            "LessEqual", "And", "Or", "Not", "Force"} -> parsePrimitiveProcedure(p)
      [] p.currentToken.TokenType = "Quote" -> parseQuoteExpression(p)
      [] p.currentToken.TokenType = "Identifier" -> parseIdentifier(p)
      [] p.currentToken.TokenType = "True" -> Parsed(nextToken(p), TrueLiteral)
      [] p.currentToken.TokenType = "False" -> Parsed(nextToken(p), FalseLiteral)
      [] OTHER ->
           ParseFail(p, p.currentToken, "unexpected token: " \o p.currentToken.TokenType)

\* [p, program, ok, err]: program is the Expressions of the Program; ok is
\* false and program empty when the Program is nil
Parse(p) ==
    LET RECURSIVE parseLoop(_, _)
        parseNext(r, expressions) ==
            IF ~r.ok
            THEN [p |-> r.p, program |-> <<>>, ok |-> FALSE, err |-> r.err]
            ELSE parseLoop(r.p, Append(expressions, r.exp))
        parseLoop(q, expressions) ==
            IF match(q, "EOF").ok
            THEN [p |-> match(q, "EOF").p, program |-> expressions, ok |-> TRUE,
                  err |-> NoParsingError]
            ELSE parseNext(parseExpression(q), expressions)
    IN parseLoop(nextToken(p), <<>>)

\* Parse has not been called
NotParsed == [returned |-> FALSE, program |-> <<>>, ok |-> FALSE, err |-> NoParsingError]

----------------------------------------------------------------------------
(* The interpreter as a state machine.                                     *)

VARIABLES
    heap,            \* the ReturnValue cells, by handle
    arrays,          \* the backing arrays of the []*ReturnValue slices
    frames,          \* the Environment frames, by handle
    stdout,          \* what has been written to standard output
    procedureNames,  \* Evaluator.procedureNames
    forceEvals,      \* history: the promises whose body force has evaluated
    stdin,           \* the input stream initGlobalEnvironment was given
    rng,             \* the generator r of initGlobalEnvironment
    lexer,           \* the Lexer
    tokens,          \* history: the tokens NextToken has returned
    parser,          \* the Parser
    parsed,          \* what Parse has returned
    program,         \* the forms of the program Eval has been through so far
    ret,             \* Eval's ret
    err,             \* Eval's err
    failed           \* Eval has returned its error

vars == <<heap, arrays, frames, stdout, procedureNames, forceEvals, stdin, rng,
         lexer, tokens, parser, parsed, program, ret, err, failed>>

\* Evaluator.globalEnv
globalEnv == 1

\* the names initGlobalEnvironment registers builtins under
BuiltinNames ==
    <<"+", "-", "*", ">", ">=", "<", "<=", "=", "equal?", "eq?", "and", "or", "not",
      "cons", "list", "length", "car", "cdr", "cadr", "cddr",
      "set-car!", "set-cdr!", "null?", "display", "force", "apply", "map",
      "read", "remainder", "random">>

initGlobalEnvironment ==
    [heap |-> <<ListCell(1, 0, 0)>>
                \o [i \in 1..Len(BuiltinNames) |-> BuiltinCell(BuiltinNames[i])],
     arrays |-> << <<>> >>,
     store |-> [n \in {"the-empty-stream"} \cup {BuiltinNames[i] : i \in 1..Len(BuiltinNames)} |->
                 IF n = "the-empty-stream" THEN 1
                 ELSE 1 + CHOOSE i \in 1..Len(BuiltinNames) : BuiltinNames[i] = n]]

\* an io.Reader over the chunks its successive Read calls deliver: next is
\* the index of the chunk the next Read delivers
Reader(chunks) == [chunks |-> chunks, next |-> 1]

\* the numbers rand.NewSource(9527) gives, for the programs that do not call
\* random
Seed9527 == <<0>>

\* the evaluator New returns, reading from input and its generator r on the
\* given source
NewEvaluator(input, source) ==
    /\ heap = initGlobalEnvironment.heap
    /\ arrays = initGlobalEnvironment.arrays
    /\ frames = << [enclosing |-> Nil, store |-> initGlobalEnvironment.store] >>
    /\ stdout = <<>>
    /\ procedureNames = <<>>
    /\ forceEvals = <<>>
    /\ stdin = input
    /\ rng = [draws |-> source, next |-> 1]
    /\ program = <<>>
    /\ ret = Nil
    /\ err = NoError
    /\ failed = FALSE

\* the state New returns, no text given to a lexer and no tokens to a parser
NewOn(input, source) ==
    /\ NewEvaluator(input, source)
    /\ lexer = NewLexer(<<>>)
    /\ tokens = <<>>
    /\ parser = NewParser(<<>>)
    /\ parsed = NotParsed

\* the evaluator started on an empty input stream
Init == NewOn(Reader(<<>>), Seed9527)

State == [heap |-> heap, arrays |-> arrays, frames |-> frames, stdout |-> stdout,
          procedureNames |-> procedureNames, forceEvals |-> forceEvals,
          stdin |-> stdin, rng |-> rng]

\* the loop of Eval going on to the next form after a form has failed
Eval_ContinuesAfterError(exp) ==
    /\ Len(program) < MaxForms
    /\ LET st0 == IF program = <<>> THEN pushProcedureName(State, "main") ELSE State
           r == eval(exp, globalEnv, st0)
       IN /\ heap' = r.st.heap
          /\ arrays' = r.st.arrays
          /\ frames' = r.st.frames
          /\ stdout' = r.st.stdout
          /\ procedureNames' = r.st.procedureNames
          /\ forceEvals' = r.st.forceEvals
          /\ stdin' = r.st.stdin
          /\ rng' = r.st.rng
          /\ UNCHANGED <<lexer, tokens, parser, parsed>>
          /\ program' = Append(program, exp)
          /\ ret' = r.val
          /\ err' = r.err
          /\ failed' = ~r.ok

\* One iteration of the loop of Eval, on the next form exp of the program;
\* the first iteration comes after the push of "main".
Eval(exp) ==
    /\ ~failed
    /\ Len(program) < MaxForms
    /\ LET st0 == IF program = <<>> THEN pushProcedureName(State, "main") ELSE State
           r == eval(exp, globalEnv, st0)
       IN /\ heap' = r.st.heap
          /\ arrays' = r.st.arrays
          /\ frames' = r.st.frames
          /\ stdout' = r.st.stdout
          /\ procedureNames' = r.st.procedureNames
          /\ forceEvals' = r.st.forceEvals
          /\ stdin' = r.st.stdin
          /\ rng' = r.st.rng
          /\ UNCHANGED <<lexer, tokens, parser, parsed>>
          /\ program' = Append(program, exp)
          /\ ret' = r.val
          /\ err' = r.err
          /\ failed' = ~r.ok

----------------------------------------------------------------------------
(* Shorthands for writing programs: every node on line 1 unless said.      *)

Id(x)        == IdentifierExpression(x, 1)
Prim(x)      == PrimitiveProcedureExpression(x, 1)
Num(n)       == NumberLiteral(n, 1)
Str(s)       == StringLiteral(s, 1)
Sym(s)       == SymbolExpression(s, 1)
App(f, args) == CallExpression(f, args, 1)
Def(x, e)    == DefineExpression(x, e, 1)
Set(x, e)    == SetExpression(x, e, 1)
Begin(es)    == BeginExpression(es, 1)
If(p, c, a)  == IfExpression(p, c, a, 1)
Lam(ps, body) == LambdaExpression(ps, "", body, 1)
LamRest(ps, rest, body) == LambdaExpression(ps, rest, body, 1)
Quote(es)    == ListExpression(es, 1)
Delay(e)     == DelayExpression(e, 1)
Show(s)      == App(Id("display"), <<Str(s)>>)

----------------------------------------------------------------------------
(* Promises: delay and force.                                              *)

\* (define n 0)
P_DefineN == Def("n", Num(0))
\* (define p (delay (begin (display "x") 7)))
P_DefineP == Def("p", Delay(Begin(<<Show("x"), Num(7)>>)))
\* (define q (delay (begin (set! n (+ n 1)) (if (< n 2) (force q) n))))
P_DefineQ ==
    Def("q", Delay(Begin(<<Set("n", App(Prim("+"), <<Id("n"), Num(1)>>)),
                           If(App(Prim("<"), <<Id("n"), Num(2)>>),
                              App(Prim("force"), <<Id("q")>>),
                              Id("n"))>>)))
\* (force p)
P_ForceP == App(Prim("force"), <<Id("p")>>)
\* (force q)
P_ForceQ == App(Prim("force"), <<Id("q")>>)
\* (force (delay (+ 1 2)))
P_ForceDelay == App(Prim("force"), <<Delay(App(Prim("+"), <<Num(1), Num(2)>>))>>)

PromiseForms == {P_DefineN, P_DefineP, P_DefineQ, P_ForceP, P_ForceQ, P_ForceDelay}

NextPromise == \E exp \in PromiseForms : Eval(exp)

SpecPromise == Init /\ [][NextPromise]_vars

\* C1: across any sequence of (force p) calls the body expression of a
\* promise p is evaluated at most once: no promise occurs twice among the
\* body evaluations force has started.
C1_BodyEvaluatedAtMostOnce ==
    \A i, j \in DOMAIN forceEvals : forceEvals[i] = forceEvals[j] => i = j

----------------------------------------------------------------------------
(* Conditionals: calls of or and and, and if.                              *)

\* Number of top-level forms of a program of conditionals.
MaxLogicForms == 1

\* #f
L_False == FalseLiteral
\* 0
L_Zero == Num(0)
\* '()
L_Empty == Quote(<<>>)
\* undefined-name
L_Undef == Id("undefined-name")
\* (begin (display "s") #f)
L_SayFalse == Begin(<<Show("s"), FalseLiteral>>)
\* (display "t")
L_SayVoid == Show("t")
\* ""
L_EmptyString == Str("")
\* #t
L_True == TrueLiteral

LogicOperands == {L_False, L_Zero, L_Undef, L_SayFalse, L_SayVoid}

LogicOperandLists ==
    {<<>>} \cup {<<a>> : a \in LogicOperands}
           \cup {<<a, b>> : a, b \in LogicOperands}
           \cup {<<a, b, c>> : a, b, c \in LogicOperands}

\* (begin (display "c") 1)
L_Consequent == Begin(<<Show("c"), Num(1)>>)
\* (begin (display "a") 2)
L_Alternative == Begin(<<Show("a"), Num(2)>>)

IfPredicates == LogicOperands \cup {L_Empty, L_EmptyString, L_True}

LogicForms ==
    {App(Prim("or"), ops) : ops \in LogicOperandLists}
      \cup {App(Prim("and"), ops) : ops \in LogicOperandLists}
      \cup {If(p, L_Consequent, L_Alternative) : p \in IfPredicates}
      \cup {If(p, L_Consequent, Void) : p \in IfPredicates}

NextLogic ==
    \E exp \in LogicForms : Len(program) < MaxLogicForms /\ Eval(exp)

SpecLogic == Init /\ [][NextLogic]_vars

\* What the operands above do, read off their text: what they write,
\* whether they fail, and the value they yield.
LogicWrites(operand) ==
    IF operand = L_SayFalse THEN <<"s">>
    ELSE IF operand = L_SayVoid THEN <<"t">>
    ELSE <<>>

LogicFails(operand) == operand = L_Undef

LogicYieldsFalse(operand) == operand \in {L_False, L_SayFalse}

LogicYields(operand, cell) ==
    CASE operand \in {L_False, L_SayFalse} -> cell = ConstantCell(FalseValue)
      [] operand = L_True -> cell = ConstantCell(TrueValue)
      [] operand = L_Zero -> cell = NumberCell(MakeInt64Number(0))
      [] operand = L_Empty -> cell.Type = "List" /\ cell.Data.len = 0
      [] operand = L_SayVoid -> cell = ConstantCell(VoidConst)
      [] operand = L_EmptyString -> cell = StringCell("")
      [] OTHER -> FALSE

\* what operands 1..k write, in order
RECURSIVE LogicWritesUpTo(_, _)
LogicWritesUpTo(ops, k) ==
    IF k = 0 THEN <<>>
    ELSE LogicWritesUpTo(ops, k - 1) \o LogicWrites(ops[k])

\* the outcome of the step: operands 1..k were evaluated and no other, and
\* the result is the value of operand k, or its error
LogicStopsAt(ops, k) ==
    /\ stdout' = stdout \o LogicWritesUpTo(ops, k)
    /\ IF LogicFails(ops[k])
       THEN failed' /\ ret' = Nil
       ELSE ~failed' /\ LogicYields(ops[k], heap'[ret'])

\* C2: a call (or e1 .. en) evaluates its operands left to right up to the
\* first whose value is not #f, which is the result, and evaluates no
\* operand after it; when every operand is #f the result is #f.
C2_OrShortCircuits ==
    [][\A ops \in LogicOperandLists :
         program' = Append(program, App(Prim("or"), ops)) =>
           LET stop == {i \in DOMAIN ops : ~LogicYieldsFalse(ops[i])}
           IN IF stop # {}
              THEN LogicStopsAt(ops, MinOf(stop))
              ELSE /\ stdout' = stdout \o LogicWritesUpTo(ops, Len(ops))
                   /\ ~failed'
                   /\ heap'[ret'] = ConstantCell(FalseValue)]_vars

\* (or (begin (display "s") #f) 0 undefined-name) has written s, returned 0
\* and not failed
C2_Witness ==
    /\ program = <<App(Prim("or"), <<L_SayFalse, L_Zero, L_Undef>>)>>
    /\ stdout = <<"s">>
    /\ ~failed
    /\ heap[ret] = NumberCell(MakeInt64Number(0))

\* C3: a call (and e1 .. en) evaluates its operands left to right; at the
\* first operand whose value is #f the result is #f and no later operand is
\* evaluated; when no operand is #f the result is the value of the last one.
C3_AndShortCircuits ==
    [][\A ops \in LogicOperandLists \ {<<>>} :
         program' = Append(program, App(Prim("and"), ops)) =>
           LET stop == {i \in DOMAIN ops :
                          LogicYieldsFalse(ops[i]) \/ LogicFails(ops[i])}
           IN IF stop # {}
              THEN /\ LogicStopsAt(ops, MinOf(stop))
                   /\ ~failed' => heap'[ret'] = ConstantCell(FalseValue)
              ELSE LogicStopsAt(ops, Len(ops))]_vars

\* (and (display "t") (begin (display "s") #f) undefined-name) has written
\* t and s, returned #f and not failed
C3_Witness ==
    /\ program = <<App(Prim("and"), <<L_SayVoid, L_SayFalse, L_Undef>>)>>
    /\ stdout = <<"t", "s">>
    /\ ~failed
    /\ heap[ret] = ConstantCell(FalseValue)

\* (and (display "t") 0) has returned its last operand
C3_WitnessLast ==
    /\ program = <<App(Prim("and"), <<L_SayVoid, L_Zero>>)>>
    /\ ~failed
    /\ heap[ret] = NumberCell(MakeInt64Number(0))

\* C7: if takes the alternative only when its predicate is the constant #f,
\* and the consequent for every other value (0, the empty list, the empty
\* string and void among them), evaluating only the branch it takes; an if
\* without alternative whose predicate is #f yields void.
C7_OnlyFalseIsFalse ==
    [][\A p \in IfPredicates \ {L_Undef} : \A a \in {L_Alternative, Void} :
         program' = Append(program, If(p, L_Consequent, a)) =>
           /\ ~failed'
           /\ IF LogicYieldsFalse(p)
              THEN IF a = Void
                   THEN /\ stdout' = stdout \o LogicWrites(p)
                        /\ heap'[ret'] = ConstantCell(VoidConst)
                   ELSE /\ stdout' = stdout \o LogicWrites(p) \o <<"a">>
                        /\ heap'[ret'] = NumberCell(MakeInt64Number(2))
              ELSE /\ stdout' = stdout \o LogicWrites(p) \o <<"c">>
                   /\ heap'[ret'] = NumberCell(MakeInt64Number(1))]_vars

\* (if (display "t") (begin (display "c") 1) (begin (display "a") 2)), whose
\* predicate is void, has taken the consequent
C7_Witness ==
    /\ program = <<If(L_SayVoid, L_Consequent, L_Alternative)>>
    /\ stdout = <<"t", "c">>
    /\ heap[ret] = NumberCell(MakeInt64Number(1))

\* (if #f (begin (display "c") 1)) has yielded void and written nothing
C7_WitnessNoAlternative ==
    /\ program = <<If(L_False, L_Consequent, Void)>>
    /\ stdout = <<>>
    /\ ~failed
    /\ heap[ret] = ConstantCell(VoidConst)

----------------------------------------------------------------------------
(* Scope: procedure application, define and set!.                          *)

\* (define g ((lambda (x) (lambda () x)) 7))
S_DefG == Def("g", App(Lam(<<"x">>, <<Lam(<<>>, <<Id("x")>>)>>), <<Num(7)>>))
\* (define (callg x) (g))
S_DefCallG == Def("callg", Lam(<<"x">>, <<App(Id("g"), <<>>)>>))
\* (callg 5)
S_CallG == App(Id("callg"), <<Num(5)>>)
\* (define x 1)
S_DefX == Def("x", Num(1))
\* (define x 3)
S_DefX3 == Def("x", Num(3))
\* ((lambda () (define x 2) x))
S_InnerDefine == App(Lam(<<>>, <<Def("x", Num(2)), Id("x")>>), <<>>)
\* ((lambda (x) (define x 2) x) 9)
S_DefineOverParam == App(Lam(<<"x">>, <<Def("x", Num(2)), Id("x")>>), <<Num(9)>>)
\* x
S_X == Id("x")
\* (set! x 10)
S_SetX == Set("x", Num(10))
\* ((lambda (x) (set! x 11) x) 9)
S_SetLocal == App(Lam(<<"x">>, <<Set("x", Num(11)), Id("x")>>), <<Num(9)>>)
\* ((lambda () (set! x 12) x))
S_SetOuter == App(Lam(<<>>, <<Set("x", Num(12)), Id("x")>>), <<>>)
\* ((lambda () (set! y 13)))
S_SetUnbound == App(Lam(<<>>, <<Set("y", Num(13))>>), <<>>)

ScopeForms ==
    {S_DefG, S_DefCallG, S_CallG, S_DefX, S_DefX3, S_InnerDefine,
     S_DefineOverParam, S_X, S_SetX, S_SetLocal, S_SetOuter, S_SetUnbound}

NextScope == \E exp \in ScopeForms : Eval(exp)

SpecScope == Init /\ [][NextScope]_vars

\* the step evaluates the form exp
Evaluates(exp) == program' = Append(program, exp)

\* the frames there were before the step are as they were
OldFramesUnchanged == \A f \in DOMAIN frames : frames'[f] = frames[f]

\* the step has made n frames
NewFrames(n) == Len(frames') = Len(frames) + n

\* after the step, frame f binds name to the integer n
BindsInt(f, name, n) ==
    /\ name \in DOMAIN frames'[f].store
    /\ heap'[frames'[f].store[name]] = NumberCell(MakeInt64Number(n))

\* the step has returned the integer n
ReturnsInt(n) == ~failed' /\ heap'[ret'] = NumberCell(MakeInt64Number(n))

GlobalBinds(name) == name \in DOMAIN frames[globalEnv].store

\* C4: the body of an applied procedure runs in a new frame whose enclosing
\* frame is the environment the lambda was evaluated in, not the caller's:
\* (callg 5), where callg binds x to 5 and calls the closure g made where x
\* was 7, makes one frame for callg and one for g, the frame of g is
\* enclosed by the frame g captured, and the x of g's body is 7.
C4_LexicalScope ==
    [][Evaluates(S_CallG) /\ GlobalBinds("g") /\ GlobalBinds("callg") =>
         LET captured == heap[frames[globalEnv].store["g"]].Data.Env
             callgFrame == Len(frames) + 1
             gFrame == Len(frames) + 2
         IN /\ NewFrames(2)
            /\ OldFramesUnchanged
            /\ frames'[callgFrame].enclosing = globalEnv
            /\ BindsInt(callgFrame, "x", 5)
            /\ frames'[gFrame].enclosing = captured
            /\ captured # callgFrame
            /\ ReturnsInt(7)]_vars

\* (callg 5) has returned 7
C4_Witness ==
    /\ program = <<S_DefG, S_DefCallG, S_CallG>>
    /\ ~failed
    /\ heap[ret] = NumberCell(MakeInt64Number(7))
    /\ Len(frames) = 4

\* C5: define binds in the current frame only and leaves the enclosing
\* frames as they are: a define in a procedure body binds in the frame of
\* the call, whatever the global frame holds, and a define at top level
\* changes the binding of its name in the global frame and nothing else;
\* after (define x 1) ((lambda () (define x 2) x)) the call has returned 2
\* and x is still 1.
C5_DefineIsLocal ==
    [][/\ Evaluates(S_InnerDefine) \/ Evaluates(S_DefineOverParam) =>
            /\ NewFrames(1)
            /\ OldFramesUnchanged
            /\ DOMAIN frames'[Len(frames')].store = {"x"}
            /\ BindsInt(Len(frames'), "x", 2)
            /\ ReturnsInt(2)
       /\ \A n \in {1, 3} : Evaluates(Def("x", Num(n))) =>
            /\ NewFrames(0)
            /\ \A f \in DOMAIN frames : f # globalEnv => frames'[f] = frames[f]
            /\ DOMAIN frames'[globalEnv].store
                  = DOMAIN frames[globalEnv].store \cup {"x"}
            /\ \A k \in DOMAIN frames[globalEnv].store :
                  k # "x" => frames'[globalEnv].store[k] = frames[globalEnv].store[k]
            /\ BindsInt(globalEnv, "x", n)
            /\ ReturnsInt(n)
       /\ program' = <<S_DefX, S_InnerDefine, S_X>> => ReturnsInt(1)]_vars

\* after (define x 1) ((lambda () (define x 2) x)) the global x is 1 and the
\* frame of the call binds x to 2
C5_Witness ==
    /\ program = <<S_DefX, S_InnerDefine>>
    /\ heap[ret] = NumberCell(MakeInt64Number(2))
    /\ heap[frames[globalEnv].store["x"]] = NumberCell(MakeInt64Number(1))
    /\ heap[frames[2].store["x"]] = NumberCell(MakeInt64Number(2))

\* C6: set! replaces the binding of its name in the nearest frame that has
\* one and changes no other frame; when no frame of the chain binds the
\* name it fails and no frame gets a binding.
C6_SetUpdatesNearest ==
    [][/\ Evaluates(S_SetX) =>
            IF GlobalBinds("x")
            THEN /\ ~failed'
                 /\ BindsInt(globalEnv, "x", 10)
                 /\ \E h \in DOMAIN heap' :
                       frames' = [frames EXCEPT ![globalEnv].store["x"] = h]
            ELSE failed' /\ frames' = frames
       /\ Evaluates(S_SetLocal) =>
            /\ NewFrames(1)
            /\ OldFramesUnchanged
            /\ DOMAIN frames'[Len(frames')].store = {"x"}
            /\ BindsInt(Len(frames'), "x", 11)
            /\ ReturnsInt(11)
       /\ Evaluates(S_SetOuter) =>
            /\ NewFrames(1)
            /\ frames'[Len(frames')].store = <<>>
            /\ IF GlobalBinds("x")
               THEN /\ ReturnsInt(12)
                    /\ BindsInt(globalEnv, "x", 12)
                    /\ \E h \in DOMAIN heap' :
                          SubSeq(frames', 1, Len(frames))
                             = [frames EXCEPT ![globalEnv].store["x"] = h]
               ELSE failed' /\ OldFramesUnchanged
       /\ Evaluates(S_SetUnbound) =>
            /\ failed'
            /\ NewFrames(1)
            /\ frames'[Len(frames')].store = <<>>
            /\ OldFramesUnchanged]_vars

\* (define x 1) ((lambda (x) (set! x 11) x) 9) has left the global x at 1
C6_Witness ==
    /\ program = <<S_DefX, S_SetLocal>>
    /\ heap[ret] = NumberCell(MakeInt64Number(11))
    /\ heap[frames[globalEnv].store["x"]] = NumberCell(MakeInt64Number(1))
    /\ heap[frames[2].store["x"]] = NumberCell(MakeInt64Number(11))

\* (define x 1) ((lambda () (set! y 13))) has failed and bound y nowhere
C6_WitnessUnbound ==
    /\ program = <<S_DefX, S_SetUnbound>>
    /\ failed
    /\ \A f \in DOMAIN frames : "y" \notin DOMAIN frames[f].store

----------------------------------------------------------------------------
(* Arity: fixed parameters and the rest parameter.                         *)

\* (define (f0) (display "z") 0)
A_DefF0 == Def("f0", Lam(<<>>, <<Show("z"), Num(0)>>))
\* (define (f2 a b) (display "f") b)
A_DefF2 == Def("f2", Lam(<<"a", "b">>, <<Show("f"), Id("b")>>))
\* (define (fr a . r) (display "r") r)
A_DefFr == Def("fr", LamRest(<<"a">>, "r", <<Show("r"), Id("r")>>))

\* the operand lists (), (1), (1 2), (1 2 3)
ArityOperands == {SubSeq(<<Num(1), Num(2), Num(3)>>, 1, k) : k \in 0..3}

ArityForms ==
    {A_DefF0, A_DefF2, A_DefFr}
      \cup {App(Id("f0"), args) : args \in ArityOperands}
      \cup {App(Id("f2"), args) : args \in ArityOperands}
      \cup {App(Id("fr"), args) : args \in ArityOperands}

NextArity == \E exp \in ArityForms : Eval(exp)

SpecArity == Init /\ [][NextArity]_vars

\* after the step, the value of handle h is the List of the integers ns
IsIntList(h, ns) ==
    /\ heap'[h].Type = "List"
    /\ heap'[h].Data.len = Len(ns)
    /\ \A i \in 1..Len(ns) :
          heap'[arrays'[heap'[h].Data.arr][heap'[h].Data.off + i]]
             = NumberCell(MakeInt64Number(ns[i]))

\* C8: a procedure of n parameters and no rest parameter applied to k
\* operands fails unless k = n; one with a rest parameter fails unless
\* k >= n and otherwise has its rest parameter bound to the List of the
\* operands n+1..k, empty when k = n; when the arity check fails no frame is
\* made and the body is not evaluated.
C8_Arity ==
    [][\A args \in ArityOperands :
         /\ Evaluates(App(Id("f0"), args)) /\ GlobalBinds("f0") =>
              IF Len(args) # 0
              THEN failed' /\ frames' = frames /\ stdout' = stdout
              ELSE /\ NewFrames(1)
                   /\ OldFramesUnchanged
                   /\ frames'[Len(frames')].store = <<>>
                   /\ stdout' = Append(stdout, "z")
                   /\ ReturnsInt(0)
         /\ Evaluates(App(Id("f2"), args)) /\ GlobalBinds("f2") =>
              IF Len(args) # 2
              THEN failed' /\ frames' = frames /\ stdout' = stdout
              ELSE /\ NewFrames(1)
                   /\ OldFramesUnchanged
                   /\ DOMAIN frames'[Len(frames')].store = {"a", "b"}
                   /\ BindsInt(Len(frames'), "a", 1)
                   /\ BindsInt(Len(frames'), "b", 2)
                   /\ stdout' = Append(stdout, "f")
                   /\ ReturnsInt(2)
         /\ Evaluates(App(Id("fr"), args)) /\ GlobalBinds("fr") =>
              IF Len(args) < 1
              THEN failed' /\ frames' = frames /\ stdout' = stdout
              ELSE /\ NewFrames(1)
                   /\ OldFramesUnchanged
                   /\ DOMAIN frames'[Len(frames')].store = {"a", "r"}
                   /\ BindsInt(Len(frames'), "a", 1)
                   /\ IsIntList(frames'[Len(frames')].store["r"],
                                [i \in 1..(Len(args) - 1) |-> i + 1])
                   /\ stdout' = Append(stdout, "r")
                   /\ ~failed'
                   /\ ret' = frames'[Len(frames')].store["r"]]_vars

\* (fr 1 2 3) has bound r to (2 3) and returned it
C8_Witness ==
    /\ program = <<A_DefFr, App(Id("fr"), <<Num(1), Num(2), Num(3)>>)>>
    /\ ~failed
    /\ heap[ret].Type = "List"
    /\ heap[ret].Data.len = 2
    /\ frames[2].store["r"] = ret

\* (f2 1 2 3) has failed without a frame or a write
C8_WitnessError ==
    /\ program = <<A_DefF2, App(Id("f2"), <<Num(1), Num(2), Num(3)>>)>>
    /\ failed
    /\ Len(frames) = 1
    /\ stdout = <<>>

\* (fr 1) has bound r to the empty List
C8_WitnessEmptyRest ==
    /\ program = <<A_DefFr, App(Id("fr"), <<Num(1)>>)>>
    /\ ~failed
    /\ heap[ret].Type = "List"
    /\ heap[ret].Data.len = 0

----------------------------------------------------------------------------
(* Aliases of a mutable pair.                                              *)

\* (begin (define l (list 1 2 3)) (define m l))
LS_DefList ==
    Begin(<<Def("l", App(Id("list"), <<Num(1), Num(2), Num(3)>>)),
            Def("m", Id("l"))>>)
\* (begin (define l (cons 1 2)) (define m l))
LS_DefPair ==
    Begin(<<Def("l", App(Id("cons"), <<Num(1), Num(2)>>)), Def("m", Id("l"))>>)
\* (set-car! name n)
LS_SetCar(name, n) == App(Id("set-car!"), <<Id(name), Num(n)>>)
\* (set-cdr! name n)
LS_SetCdr(name, n) == App(Id("set-cdr!"), <<Id(name), Num(n)>>)

LS_SetCars == {LS_SetCar("l", 4), LS_SetCar("m", 5)}
LS_SetCdrs == {LS_SetCdr("l", 9), LS_SetCdr("m", 8)}

AliasForms == {LS_DefList, LS_DefPair, Id("l"), Id("m")} \cup LS_SetCars \cup LS_SetCdrs

NextAlias == \E exp \in AliasForms : Eval(exp)

SpecAlias == Init /\ [][NextAlias]_vars

\* What a program of the forms above has made of the pair, read off its
\* text: whether it is defined, its car, and its cdr when it is not the
\* list (2 3) it may have started with (cdr = 0).
RECURSIVE PairAfter(_)
PairAfter(prog) ==
    IF prog = <<>> THEN [defined |-> FALSE, car |-> 0, cdr |-> 0]
    ELSE LET before == PairAfter(SubSeq(prog, 1, Len(prog) - 1))
             exp == prog[Len(prog)]
         IN CASE exp = LS_DefList -> [defined |-> TRUE, car |-> 1, cdr |-> 0]
              [] exp = LS_DefPair -> [defined |-> TRUE, car |-> 1, cdr |-> 2]
              [] exp \in LS_SetCars -> [before EXCEPT !.car = exp.subs[3].num]
              [] exp \in LS_SetCdrs -> [before EXCEPT !.cdr = exp.subs[3].num]
              [] OTHER -> before

\* how a pair of that car and cdr is written
PairText(pair) ==
    IF pair.cdr = 0
    THEN "'(" \o ToString(pair.car) \o " 2 3)"
    ELSE "'(" \o ToString(pair.car) \o " . " \o ToString(pair.cdr) \o ")"

\* what the global name reads as
ReadsAs(name) == ValueString(State, frames[globalEnv].store[name])

\* C9: a mutation through one reference is seen through every alias: with m
\* defined as l, after any set-car! and set-cdr! through l or m both names
\* read the same pair, with the car last set, and once a cdr has been set as
\* the Cons of that car and that cdr, still under the one handle.
C9_AliasesSeeMutation ==
    PairAfter(program).defined /\ ~failed =>
        /\ frames[globalEnv].store["l"] = frames[globalEnv].store["m"]
        /\ ReadsAs("l") = PairText(PairAfter(program))
        /\ ReadsAs("m") = PairText(PairAfter(program))

\* (set-car! l 4) then (set-cdr! l 9) on the list (1 2 3): l and m both read
\* (4 . 9)
C9_Witness ==
    /\ program = <<LS_DefList, LS_SetCar("l", 4), LS_SetCdr("l", 9)>>
    /\ ~failed
    /\ ReadsAs("l") = "'(4 . 9)"
    /\ ReadsAs("m") = "'(4 . 9)"
    /\ heap[frames[globalEnv].store["m"]].Type = "Cons"

\* (set-car! l 4) on the list (1 2 3): l and m both read (4 2 3)
C9_WitnessSetCar ==
    /\ program = <<LS_DefList, LS_SetCar("l", 4)>>
    /\ ~failed
    /\ ReadsAs("l") = "'(4 2 3)"
    /\ ReadsAs("m") = "'(4 2 3)"

----------------------------------------------------------------------------
(* cons, car and cdr.                                                      *)

\* Number of top-level forms of a program of pair constructions.
MaxConsForms == 2

\* '()
K_Empty == Quote(<<>>)
\* (list 2 3)
K_List == App(Id("list"), <<Num(2), Num(3)>>)
\* (cons 2 3)
K_Pair == App(Id("cons"), <<Num(2), Num(3)>>)
\* "s"
K_String == Str("s")

\* the first operands of cons, and the second operands that are Lists and
\* those that are not
ConsCars == {Num(1), K_String, K_List}
ConsLists == {K_Empty, K_List}
ConsOthers == {Num(2), K_Pair}

K_Cons(a, y) == App(Id("cons"), <<a, y>>)
K_Car(e) == App(Id("car"), <<e>>)
K_Cdr(e) == App(Id("cdr"), <<e>>)
K_Equal(e, f) == App(Id("equal?"), <<e, f>>)

ConsForms ==
    {K_Cons(a, y) : a \in ConsCars, y \in ConsLists \cup ConsOthers}
      \cup {K_Car(K_Cons(a, bs)) : a \in ConsCars, bs \in ConsLists}
      \cup {K_Cdr(K_Cons(a, bs)) : a \in ConsCars, bs \in ConsLists}
      \cup {K_Equal(K_Cdr(K_Cons(a, bs)), bs) : a \in ConsCars, bs \in ConsLists}

NextCons ==
    \E exp \in ConsForms : Len(program) < MaxConsForms /\ Eval(exp)

SpecCons == Init /\ [][NextCons]_vars

\* How the value of an operand is written inside a list, read off its text.
ConsText(e) ==
    CASE e = Num(1) -> "1"
      [] e = Num(2) -> "2"
      [] e = K_String -> "\"s\""
      [] e = K_Empty -> "()"
      [] e = K_List -> "(2 3)"
      [] e = K_Pair -> "(2 . 3)"

\* the text of the elements of a List operand, each after a space
ConsElementsText(bs) == IF bs = K_Empty THEN "" ELSE " 2 3"

\* the value Eval returned, as written
Returned == ValueString(State, ret)

\* the form the last step evaluated
LastForm == program[Len(program)]

\* C10: (cons x y) is the List of x followed by the elements of y when y is
\* a List, and the Cons (x . y) otherwise; for a List bs, (car (cons a bs))
\* is a and (cdr (cons a bs)) is equal? to bs.
C10_Cons ==
    program # <<>> =>
      /\ ~failed
      /\ \A a \in ConsCars :
           /\ \A bs \in ConsLists :
                /\ LastForm = K_Cons(a, bs) =>
                     /\ heap[ret].Type = "List"
                     /\ Returned = "'(" \o ConsText(a) \o ConsElementsText(bs) \o ")"
                /\ LastForm = K_Car(K_Cons(a, bs)) =>
                     Display(State, ret, 1) = ConsText(a)
                /\ LastForm = K_Cdr(K_Cons(a, bs)) =>
                     /\ heap[ret].Type = "List"
                     /\ Display(State, ret, 1) = ConsText(bs)
                /\ LastForm = K_Equal(K_Cdr(K_Cons(a, bs)), bs) =>
                     heap[ret] = ConstantCell(TrueValue)
           /\ \A y \in ConsOthers :
                LastForm = K_Cons(a, y) =>
                  /\ heap[ret].Type = "Cons"
                  /\ Returned = "'(" \o ConsText(a) \o " . " \o ConsText(y) \o ")"

\* (cons "s" (list 2 3)) has returned the List ("s" 2 3)
C10_Witness ==
    /\ program = <<K_Cons(K_String, K_List)>>
    /\ heap[ret].Type = "List"
    /\ heap[ret].Data.len = 3
    /\ Returned = "'(\"s\" 2 3)"

\* (cons 1 (cons 2 3)) has returned the Cons (1 . (2 . 3))
C10_WitnessPair ==
    /\ program = <<K_Cons(Num(1), K_Pair)>>
    /\ heap[ret].Type = "Cons"
    /\ Returned = "'(1 . (2 . 3))"

\* (equal? (cdr (cons 1 (list 2 3))) (list 2 3)) has returned #t
C10_WitnessCdr ==
    /\ program = <<K_Equal(K_Cdr(K_Cons(Num(1), K_List)), K_List)>>
    /\ heap[ret] = ConstantCell(TrueValue)

----------------------------------------------------------------------------
(* Numbers: equality and the arithmetic builtins.                          *)

\* Number of top-level forms of a program of comparisons.
MaxEqualityForms == 2

\* 1.0
N_FloatOne == FloatLiteral(1, 1)
\* (+ 1 1)
N_Sum == App(Prim("+"), <<Num(1), Num(1)>>)

NumberExprs == {Num(1), Num(2), N_FloatOne, N_Sum}

\* (list (= x y) (equal? x y) (eq? x y))
N_Compare(x, y) ==
    App(Id("list"), <<App(Id("="), <<x, y>>),
                      App(Id("equal?"), <<x, y>>),
                      App(Id("eq?"), <<x, y>>)>>)

\* applications of + - * to integers, each with its exact result
IntegerArithmetic ==
    {<<App(Prim("+"), <<>>), 0>>,
     <<App(Prim("+"), <<Num(1), Num(2)>>), 3>>,
     <<App(Prim("+"), <<Num(1), Num(2), Num(3)>>), 6>>,
     <<App(Prim("-"), <<Num(5), Num(2)>>), 3>>,
     <<App(Prim("-"), <<Num(1)>>), -1>>,
     <<App(Prim("*"), <<Num(2), Num(3)>>), 6>>,
     <<App(Prim("*"), <<Num(2)>>), 2>>}

NumberForms ==
    {N_Compare(x, y) : x, y \in NumberExprs}
      \cup {c[1] : c \in IntegerArithmetic}
      \cup {App(Prim("+"), <<Num(1), N_FloatOne>>)}

NextNumber ==
    \E exp \in NumberForms : Len(program) < MaxEqualityForms /\ Eval(exp)

SpecNumber == Init /\ [][NextNumber]_vars

\* C11: for any two Numbers x and y, integers or floats, results of the
\* arithmetic builtins among them, (equal? x y) and (eq? x y) return the
\* truth value (= x y) returns.
C11_NumberEqualityAgrees ==
    \A x, y \in NumberExprs :
       program # <<>> /\ LastForm = N_Compare(x, y) =>
          /\ ~failed
          /\ heap[Elements(State, heap[ret])[2]] = heap[Elements(State, heap[ret])[1]]
          /\ heap[Elements(State, heap[ret])[3]] = heap[Elements(State, heap[ret])[1]]

\* C13: + - and * applied to integers whose exact result fits in 64 bits
\* produce that result as an Int64 Number; (+) produces the integer 0.
C13_IntegerArithmeticStaysInteger ==
    \A c \in IntegerArithmetic :
       program # <<>> /\ LastForm = c[1] =>
          /\ ~failed
          /\ heap[ret] = NumberCell(MakeInt64Number(c[2]))

----------------------------------------------------------------------------
(* eq?                                                                     *)

\* '(1 2)
E_List == Quote(<<Num(1), Num(2)>>)
\* (lambda () 1)
E_Lambda == Lam(<<>>, <<Num(1)>>)

\* atoms of pairwise different contents, and expressions that construct a
\* new compound value each time they are evaluated
EqAtoms == {Sym("a"), Sym("b"), Str("s"), Num(1)}
EqCompounds == {E_List, K_Pair, E_Lambda}
EqValues == EqAtoms \cup EqCompounds

\* (eq? a b)
E_Eq(a, b) == App(Id("eq?"), <<a, b>>)
\* ((lambda (p) (eq? p p)) a)
E_Same(a) == App(Lam(<<"p">>, <<App(Id("eq?"), <<Id("p"), Id("p")>>)>>), <<a>>)

EqForms ==
    {E_Eq(a, b) : a, b \in EqValues} \cup {E_Same(a) : a \in EqValues}

NextEq ==
    \E exp \in EqForms : Len(program) < MaxEqualityForms /\ Eval(exp)

SpecEq == Init /\ [][NextEq]_vars

\* C12: eq? of any two values returns #t or #f without error: #t for two
\* atoms exactly when their contents are equal, and for compound values
\* exactly when both arguments are the same handle, so #f for two compound
\* values constructed separately.
C12_EqNeverFails ==
    program # <<>> =>
       /\ \A a, b \in EqValues :
             LastForm = E_Eq(a, b) =>
                /\ ~failed
                /\ heap[ret] = BoolCell(a \in EqAtoms /\ a = b)
       /\ \A a \in EqValues :
             LastForm = E_Same(a) =>
                ~failed /\ heap[ret] = ConstantCell(TrueValue)

----------------------------------------------------------------------------
(* map.                                                                    *)

\* Number of top-level forms of a program of map calls.
MaxMapForms == 1

\* (lambda (x) (display x) x)
M_Show1 == Lam(<<"x">>, <<App(Id("display"), <<Id("x")>>), Id("x")>>)
\* (lambda (x y) (display x) y)
M_Show2 == Lam(<<"x", "y">>, <<App(Id("display"), <<Id("x")>>), Id("y")>>)

MapProcedures == {Prim("+"), Id("list"), M_Show1, M_Show2}

\* the arguments after the procedure: lists of integers, and the number 7
MapArgs ==
    {[list |-> TRUE, elems |-> e] : e \in {<<>>, <<1>>, <<1, 2>>, <<3, 4>>}}
      \cup {[list |-> FALSE, elems |-> <<>>]}

MapArgLists == UNION {[1..k -> MapArgs] : k \in 0..2}

M_Arg(a) ==
    IF a.list THEN Quote([i \in 1..Len(a.elems) |-> Num(a.elems[i])]) ELSE Num(7)

\* (map f a1 ... ak)
M_Map(f, args) ==
    App(Id("map"), <<f>> \o [i \in 1..Len(args) |-> M_Arg(args[i])])

MapForms == {M_Map(f, args) : f \in MapProcedures, args \in MapArgLists}

NextMap == \E exp \in MapForms : Len(program) < MaxMapForms /\ Eval(exp)

SpecMap == Init /\ [][NextMap]_vars

\* the procedure takes k operands
MapAccepts(f, k) ==
    CASE f = M_Show1 -> k = 1
      [] f = M_Show2 -> k = 2
      [] OTHER -> TRUE

\* the arguments are lists, at least one, all of one length
MapWellFormed(args) ==
    /\ Len(args) >= 1
    /\ \A i \in 1..Len(args) :
          args[i].list /\ Len(args[i].elems) = Len(args[1].elems)

\* the i-th elements of the lists
MapColumn(args, i) == [j \in 1..Len(args) |-> args[j].elems[i]]

\* what f applied to the operands col returns, as written inside a list
MapValueText(f, col) ==
    CASE f = Prim("+") -> ToString(IF Len(col) = 1 THEN col[1] ELSE col[1] + col[2])
      [] f = Id("list") -> "(" \o JoinWith([j \in 1..Len(col) |-> ToString(col[j])], " ") \o ")"
      [] f = M_Show1 -> ToString(col[1])
      [] f = M_Show2 -> ToString(col[2])

\* what f applied to the operands col writes
MapWrites(f, col) ==
    IF f \in {M_Show1, M_Show2} THEN <<ToString(col[1])>> ELSE <<>>

\* the writes of the applications to columns 1..n, in index order
RECURSIVE MapWritesUpTo(_, _, _)
MapWritesUpTo(f, args, n) ==
    IF n = 0 THEN <<>>
    ELSE MapWritesUpTo(f, args, n - 1) \o MapWrites(f, MapColumn(args, n))

\* C14: (map f l1 ... lk) with k >= 1 lists of one length n returns a List
\* of length n whose i-th element is f applied to the i-th elements of the
\* lists, the applications made in index order; it fails with no list
\* argument, with an argument that is not a List and with lists of
\* different lengths.
C14_Map ==
    [][\A f \in MapProcedures, args \in MapArgLists :
          Evaluates(M_Map(f, args)) =>
             IF ~MapWellFormed(args) THEN failed' /\ ret' = Nil
             ELSE MapAccepts(f, Len(args)) =>
                LET n == Len(args[1].elems)
                IN /\ ~failed'
                   /\ heap'[ret'].Type = "List"
                   /\ heap'[ret'].Data.len = n
                   /\ Returned' =
                         "'(" \o JoinWith([i \in 1..n |->
                                   MapValueText(f, MapColumn(args, i))], " ") \o ")"
                   /\ stdout' = stdout \o MapWritesUpTo(f, args, n)]_vars

\* map has applied a procedure of two parameters to two lists of two
\* elements
C14_Witness ==
    /\ program # <<>>
    /\ LastForm = M_Map(M_Show2, <<[list |-> TRUE, elems |-> <<1, 2>>],
                                   [list |-> TRUE, elems |-> <<3, 4>>]>>)
    /\ ~failed
    /\ Returned = "'(3 4)"

\* map has failed on lists of different lengths
C14_WitnessSizes ==
    /\ program # <<>>
    /\ LastForm = M_Map(Prim("+"), <<[list |-> TRUE, elems |-> <<1>>],
                                     [list |-> TRUE, elems |-> <<1, 2>>]>>)
    /\ failed

----------------------------------------------------------------------------
(* apply.                                                                  *)

\* Number of top-level forms of a program of applications.
MaxApplyForms == 1

\* (lambda (x y) (display x) (cons y x))
Y_Swap == Lam(<<"x", "y">>, <<App(Id("display"), <<Id("x")>>),
                              App(Id("cons"), <<Id("y"), Id("x")>>)>>)
\* (lambda (x . r) r)
Y_Rest == LamRest(<<"x">>, "r", <<Id("r")>>)

ApplyProcedures ==
    {Prim("+"), Prim("-"), Prim("or"), Id("list"), Id("car"), Y_Swap, Y_Rest}

ApplyOperands == {Num(1), Quote(<<Num(3)>>), FalseLiteral}

ApplyOperandLists == UNION {[1..n -> ApplyOperands] : n \in 0..2}

\* (f a1 ... an)
Y_Direct(f, as) == App(f, as)
\* (apply f (list a1 ... an))
Y_Apply(f, as) == App(Id("apply"), <<f, App(Id("list"), as)>>)

ApplyForms ==
    {Y_Direct(f, as) : f \in ApplyProcedures, as \in ApplyOperandLists}
      \cup {Y_Apply(f, as) : f \in ApplyProcedures, as \in ApplyOperandLists}

NextApply == \E exp \in ApplyForms : Len(program) < MaxApplyForms /\ Eval(exp)

SpecApply == Init /\ [][NextApply]_vars

\* what evaluating exp as the next form of the program comes to
Outcome(exp) ==
    eval(exp, globalEnv,
         IF program = <<>> THEN pushProcedureName(State, "main") ELSE State)

\* C15: (apply f (list a1 ... an)) returns the value (f a1 ... an) returns
\* and fails in the cases where (f a1 ... an) fails, for f a builtin or a
\* user procedure.
C15_ApplyIsCall ==
    [][\A f \in ApplyProcedures, as \in ApplyOperandLists :
          Evaluates(Y_Apply(f, as)) =>
             LET direct == Outcome(Y_Direct(f, as))
             IN /\ failed' = ~direct.ok
                /\ direct.ok =>
                      /\ heap'[ret'].Type = Cell(direct.st, direct.val).Type
                      /\ Returned' = ValueString(direct.st, direct.val)
                      /\ stdout' = direct.st.stdout
                /\ ~direct.ok => err'.msg = direct.err.msg]_vars

\* apply has called a user procedure of two parameters with two operands
C15_Witness ==
    /\ program # <<>>
    /\ LastForm = Y_Apply(Y_Swap, <<Quote(<<Num(3)>>), Num(1)>>)
    /\ ~failed
    /\ Returned = "'(1 3)"
    /\ stdout = <<"'(3)">>

\* apply has failed with the arity error of the procedure
C15_WitnessArity ==
    /\ program # <<>>
    /\ LastForm = Y_Apply(Y_Swap, <<Num(1)>>)
    /\ failed
    /\ err.msg = "expected 2 arguments, got 1"

----------------------------------------------------------------------------
(* Stack traces.  The program is                                           *)
(*    (define (c) <body>)     the body on line 4                           *)
(*    (define (b) (c))        the call of c on line 8                      *)
(*    (define (a) (b))        the call of b on line 11                     *)
(*    (a)                     or (b) or (c), on line 14                    *)
(* where every <body> fails on line 4.                                     *)

\* (+ 1 d): an undefined identifier as an operand
T_Operand ==
    CallExpression(PrimitiveProcedureExpression("+", 4),
                   <<NumberLiteral(1, 4), IdentifierExpression("d", 4)>>, 4)
\* (car '()): a builtin failing
T_Builtin ==
    CallExpression(IdentifierExpression("car", 4), <<ListExpression(<<>>, 4)>>, 4)
\* d: an undefined identifier as the whole body
T_Bare == IdentifierExpression("d", 4)
\* (+ 1 (car '())): a builtin failing in an operand
T_Nested ==
    CallExpression(PrimitiveProcedureExpression("+", 4),
                   <<NumberLiteral(1, 4), T_Builtin>>, 4)
\* (if (car '()) 1 2): a builtin failing in a predicate
T_If == IfExpression(T_Builtin, NumberLiteral(1, 4), NumberLiteral(2, 4), 4)

TraceBodies == {T_Operand, T_Builtin, T_Bare, T_Nested, T_If}

\* (name): a call without operands on the given line
T_Call(name, line) == CallExpression(IdentifierExpression(name, line), <<>>, line)

\* the three definitions, the body of c given
T_Setup(body) ==
    BeginExpression(
      <<DefineExpression("c", LambdaExpression(<<>>, "", <<body>>, 3), 3),
        DefineExpression("b", LambdaExpression(<<>>, "", <<T_Call("c", 8)>>, 7), 7),
        DefineExpression("a", LambdaExpression(<<>>, "", <<T_Call("b", 11)>>, 10), 10)>>,
      1)

TraceForms ==
    {T_Setup(body) : body \in TraceBodies}
      \cup {T_Call(name, 14) : name \in {"a", "b", "c"}}

NextTrace == \E exp \in TraceForms : Eval(exp)

SpecTrace == Init /\ [][NextTrace]_vars

\* the frames of the procedures active under a top-level call of name when
\* c fails: innermost first, each with the line executing inside it
T_Frames(name) ==
    LET all == <<[lineNumber |-> 4, identifierName |-> "c"],
                 [lineNumber |-> 8, identifierName |-> "b"],
                 [lineNumber |-> 11, identifierName |-> "a"]>>
    IN SubSeq(all, 1, CASE name = "c" -> 1 [] name = "b" -> 2 [] OTHER -> 3)

\* C16: an error raised while user procedures are active gives a stack
\* trace of exactly one frame for each of them, innermost first, each frame
\* with the name of the procedure and the line executing inside it, and the
\* line of the error is the line of the top-level call.
C16_StackTrace ==
    [][\A name \in {"a", "b", "c"} :
          ((\E i \in 1..Len(program) :
                program[i] \in {T_Setup(body) : body \in TraceBodies})
             /\ Evaluates(T_Call(name, 14)))
          => (/\ failed'
              /\ err'.rt
              /\ err'.stackTrace = T_Frames(name)
              /\ err'.lineNumber = 14)]_vars

----------------------------------------------------------------------------
(* Errors at the top level.                                                *)

\* (define x 1)
R_DefX == Def("x", Num(1))
\* (define x 2)
R_DefX2 == Def("x", Num(2))
\* (begin (define g (lambda () (car '()))) (define f (lambda () (+ 1 (g)))))
R_DefFG ==
    Begin(<<Def("g", Lam(<<>>, <<App(Id("car"), <<Quote(<<>>)>>)>>)),
            Def("f", Lam(<<>>, <<App(Prim("+"), <<Num(1), App(Id("g"), <<>>)>>)>>))>>)
\* (begin (define y 2) (set! x 5) (f))
R_Partial ==
    Begin(<<Def("y", Num(2)), Set("x", Num(5)), App(Id("f"), <<>>)>>)
\* (f)
R_CallF == App(Id("f"), <<>>)
\* x
R_X == Id("x")
\* y
R_Y == Id("y")

\* (set! x 7)
R_SetX == Set("x", Num(7))

ErrorForms == {R_DefX, R_DefX2, R_DefFG, R_Partial, R_CallF, R_X, R_Y, R_SetX}

NextError == \E exp \in ErrorForms : Eval(exp)

SpecError == Init /\ [][NextError]_vars

R_Undefined(name) == "undefined identifier: " \o name \o " on line 1"

\* the message of the error the form fails with in the present state, ""
\* when it does not fail
R_Message(exp) ==
    CASE exp = R_Partial ->
           IF ~GlobalBinds("x") THEN "can't find key x to update"
           ELSE IF ~GlobalBinds("f") THEN R_Undefined("f")
           ELSE "cannot call 'car' on an empty list"
      [] exp = R_CallF ->
           IF ~GlobalBinds("f") THEN R_Undefined("f")
           ELSE "cannot call 'car' on an empty list"
      [] exp = R_SetX ->
           IF GlobalBinds("x") THEN "" ELSE "can't find key x to update"
      [] exp = R_X -> IF GlobalBinds("x") THEN "" ELSE R_Undefined("x")
      [] exp = R_Y -> IF GlobalBinds("y") THEN "" ELSE R_Undefined("y")
      [] OTHER -> ""

\* the global bindings of the names other than those in changed are what
\* they were before the step
GlobalKeeps(changed) ==
    \A n \in DOMAIN frames[globalEnv].store \ changed :
       /\ n \in DOMAIN frames'[globalEnv].store
       /\ frames'[globalEnv].store[n] = frames[globalEnv].store[n]
       /\ heap'[frames'[globalEnv].store[n]] = heap[frames[globalEnv].store[n]]

\* C17: Eval evaluates the forms in order and stops at the first that fails:
\* it returns the error and no value, no later form is evaluated, the
\* bindings and mutations of the forms before and of the part of the failing
\* form that ran remain in the global environment, and the message of the
\* error is that of the innermost error, whatever wrapped it.
C17_EvalStopsAtError ==
    [][/\ ~failed
       /\ failed' => ret' = Nil
       /\ \A exp \in ErrorForms :
             Evaluates(exp) =>
                /\ failed' = (R_Message(exp) # "")
                /\ failed' => err'.msg = R_Message(exp)
                /\ exp \in {R_CallF, R_X, R_Y} => GlobalKeeps({})
                /\ exp = R_Partial =>
                      /\ BindsInt(globalEnv, "y", 2)
                      /\ IF GlobalBinds("x")
                         THEN BindsInt(globalEnv, "x", 5) /\ GlobalKeeps({"x", "y"})
                         ELSE ~GlobalBinds("x")' /\ GlobalKeeps({"y"})]_vars

\* the third form has failed three calls deep after a define and a set!,
\* the forms before it having defined x, f and g
C17_Witness ==
    /\ failed
    /\ ret = Nil
    /\ program = <<R_DefX, R_DefFG, R_Partial>>
    /\ err.msg = "cannot call 'car' on an empty list"
    /\ err.rt
    /\ Len(err.stackTrace) >= 2
    /\ heap[frames[globalEnv].store["x"]] = NumberCell(MakeInt64Number(5))
    /\ heap[frames[globalEnv].store["y"]] = NumberCell(MakeInt64Number(2))
    /\ {"f", "g"} \subseteq DOMAIN frames[globalEnv].store

----------------------------------------------------------------------------
(* Order of evaluation.                                                    *)

\* Number of top-level forms of a program of calls and begins.
MaxOrderForms == 2

\* the expressions that write say and have the value val
OrderOperands == {[say |-> "a", val |-> 1], [say |-> "b", val |-> 2]}

\* (begin (display say) val)
O_Say(o) == Begin(<<Show(o.say), Num(o.val)>>)

\* (begin (display "f") list)
O_List == Begin(<<Show("f"), Id("list")>>)
\* (begin (display "f") (lambda r (display "p") (display "q") r))
O_Lambda == Begin(<<Show("f"), LamRest(<<>>, "r", <<Show("p"), Show("q"), Id("r")>>)>>)

OrderOperators == {O_List, O_Lambda}

OrderOperandLists == UNION {[1..n -> OrderOperands] : n \in 0..2}

\* (operator operand ...)
O_Call(f, os) == App(f, [i \in 1..Len(os) |-> O_Say(os[i])])
\* (begin operand ...)
O_Begin(os) == Begin([i \in 1..Len(os) |-> O_Say(os[i])])

OrderForms ==
    {O_Call(f, os) : f \in OrderOperators, os \in OrderOperandLists}
      \cup {O_Begin(os) : os \in OrderOperandLists \ {<<>>}}

NextOrder == \E exp \in OrderForms : Len(program) < MaxOrderForms /\ Eval(exp)

SpecOrder == Init /\ [][NextOrder]_vars

\* what the operands write, one after the other
O_Says(os) == [i \in 1..Len(os) |-> os[i].say]

\* C18: a call evaluates its operator, then its operands from left to right,
\* each once, and then applies the procedure; the forms of a begin, of a
\* procedure body and of the program are evaluated in the order written,
\* and the value of a begin or of a body is that of its last form.
C18_EvaluationOrder ==
    [][/\ \A f \in OrderOperators, os \in OrderOperandLists :
             Evaluates(O_Call(f, os)) =>
                /\ ~failed'
                /\ stdout' = stdout \o <<"f">> \o O_Says(os)
                                \o (IF f = O_Lambda THEN <<"p", "q">> ELSE <<>>)
                /\ Returned' = "'(" \o JoinWith([i \in 1..Len(os) |->
                                                   ToString(os[i].val)], " ") \o ")"
       /\ \A os \in OrderOperandLists \ {<<>>} :
             Evaluates(O_Begin(os)) =>
                /\ ~failed'
                /\ stdout' = stdout \o O_Says(os)
                /\ heap'[ret'] = NumberCell(MakeInt64Number(os[Len(os)].val))]_vars

\* the second form of the program is a call of a lambda with the operands
\* a and b, evaluated after a begin: everything has written in order
C18_Witness ==
    /\ ~failed
    /\ program = <<O_Begin(<<[say |-> "b", val |-> 2], [say |-> "a", val |-> 1]>>),
                   O_Call(O_Lambda, <<[say |-> "a", val |-> 1], [say |-> "b", val |-> 2]>>)>>
    /\ stdout = <<"b", "a", "f", "a", "b", "p", "q">>
    /\ Returned = "'(1 2)"

----------------------------------------------------------------------------
(* Closures sharing a frame.                                               *)

\* (lambda () (define n 0) (lambda () (set! n (+ n 1)) n))
F_MakeCounter ==
    Lam(<<>>, <<Def("n", Num(0)),
                Lam(<<>>, <<Set("n", App(Prim("+"), <<Id("n"), Num(1)>>)), Id("n")>>)>>)

\* (begin (define make-counter ...)
\*        (define c1 (make-counter)) (define c2 (make-counter)))
F_DefCounters ==
    Begin(<<Def("make-counter", F_MakeCounter),
            Def("c1", App(Id("make-counter"), <<>>)),
            Def("c2", App(Id("make-counter"), <<>>))>>)

\* (define getset
\*    ((lambda () (define v 0) (list (lambda () v) (lambda (x) (set! v x))))))
F_DefGetSet ==
    Def("getset",
        App(Lam(<<>>, <<Def("v", Num(0)),
                        App(Id("list"), <<Lam(<<>>, <<Id("v")>>),
                                          Lam(<<"x">>, <<Set("v", Id("x"))>>)>>)>>),
            <<>>))

\* (c1), (c2) and (list (c1) (c1) (c1))
F_C1 == App(Id("c1"), <<>>)
F_C2 == App(Id("c2"), <<>>)
F_C1x3 == App(Id("list"), <<F_C1, F_C1, F_C1>>)
\* ((car getset))
F_Get == App(App(Id("car"), <<Id("getset")>>), <<>>)
\* ((cadr getset) k)
F_Set(k) == App(App(Id("cadr"), <<Id("getset")>>), <<Num(k)>>)

\* the numbers the setter is called with
F_SetValues == {5, 6, 7}

ClosureForms ==
    {F_DefCounters, F_DefGetSet, F_C1, F_C2, F_C1x3, F_Get}
      \cup {F_Set(k) : k \in F_SetValues}

NextClosure == \E exp \in ClosureForms : Eval(exp)

SpecClosure == Init /\ [][NextClosure]_vars

\* the index in the program of the last form def, 0 when there is none
F_LastIndex(def) ==
    LET at == {i \in 1..Len(program) : program[i] = def}
    IN IF at = {} THEN 0 ELSE CHOOSE i \in at : \A j \in at : j <= i

\* the calls of c1 made since c1 was defined
F_CallsOfC1 ==
    LET s == F_LastIndex(F_DefCounters)
    IN Cardinality({i \in (s + 1)..Len(program) : program[i] = F_C1})
         + 3 * Cardinality({i \in (s + 1)..Len(program) : program[i] = F_C1x3})

\* the calls of c2 made since c2 was defined
F_CallsOfC2 ==
    LET s == F_LastIndex(F_DefCounters)
    IN Cardinality({i \in (s + 1)..Len(program) : program[i] = F_C2})

\* the number the setter was last called with since getset was defined, 0
\* when it has not been called
F_LastSet ==
    LET s == F_LastIndex(F_DefGetSet)
        at == {i \in (s + 1)..Len(program) : program[i] \in {F_Set(k) : k \in F_SetValues}}
        last == CHOOSE i \in at : \A j \in at : j <= i
    IN IF at = {} THEN 0 ELSE CHOOSE k \in F_SetValues : program[last] = F_Set(k)

\* the step has returned a Number written as text
ReturnsNumber(text) ==
    ~failed' /\ heap'[ret'].Type = "Number" /\ Returned' = text

\* C19: closures share the frame they were created in: the getter sees what
\* the setter created in the same frame has set; a set! made in one call of
\* a counter is there in its next call, so the counter returns 1, 2, 3, ...;
\* and a counter made by another call of the maker counts on its own.
C19_ClosuresShareFrames ==
    [][/\ (F_LastIndex(F_DefCounters) # 0 /\ Evaluates(F_C1)) =>
             ReturnsNumber(ToString(F_CallsOfC1 + 1))
       /\ (F_LastIndex(F_DefCounters) # 0 /\ Evaluates(F_C1x3)) =>
             /\ ~failed'
             /\ Returned' = "'(" \o ToString(F_CallsOfC1 + 1) \o " "
                                 \o ToString(F_CallsOfC1 + 2) \o " "
                                 \o ToString(F_CallsOfC1 + 3) \o ")"
       /\ (F_LastIndex(F_DefCounters) # 0 /\ Evaluates(F_C2)) =>
             ReturnsNumber(ToString(F_CallsOfC2 + 1))
       /\ (F_LastIndex(F_DefGetSet) # 0 /\ Evaluates(F_Get)) =>
             ReturnsNumber(ToString(F_LastSet))
       /\ \A k \in F_SetValues :
             (F_LastIndex(F_DefGetSet) # 0 /\ Evaluates(F_Set(k))) => ~failed']_vars

\* the counter c1 has been called four times, the last three giving 2 3 4
C19_Witness ==
    /\ program = <<F_DefCounters, F_C1, F_C1x3>>
    /\ ~failed
    /\ Returned = "'(2 3 4)"

\* c2 has counted from 1 after c1 was called
C19_WitnessIndependent ==
    /\ program = <<F_DefCounters, F_C1, F_C2>>
    /\ ~failed
    /\ Returned = "1"

\* the getter has returned what the setter set
C19_WitnessShared ==
    /\ program = <<F_DefGetSet, F_Set(5), F_Get>>
    /\ ~failed
    /\ Returned = "5"

----------------------------------------------------------------------------
(* read.                                                                   *)

\* Number of (read) forms of a program.
MaxReadForms == 2

\* the data 1, "s", foo, 'foo and (1 (foo))
W_Number == NumberLiteral(1, 1)
W_String == StringLiteral("s", 1)
W_Name == IdentifierExpression("foo", 1)
W_Quoted == Node("Quote", "", 0, <<W_Name>>, <<>>, "", 1)
W_Nested == ListExpression(<<W_Number, ListExpression(<<W_Name>>, 1)>>, 1)

ReadData == {W_Number, W_String, W_Name, W_Quoted, W_Nested}

\* the input streams: one datum; two data on one line; two lines delivered
\* by one Read (a file, a pipe); two lines delivered by two Reads (a terminal)
ReadStreams ==
    {<< << <<d>> >> >> : d \in ReadData}
      \cup {<< << <<d1, d2>> >> >> : d1, d2 \in ReadData}
      \cup {<< << <<d1>>, <<d2>> >> >> : d1, d2 \in ReadData}
      \cup {<< << <<d1>> >>, << <<d2>> >> >> : d1, d2 \in ReadData}

\* (read)
W_Read == App(Id("read"), <<>>)

InitRead == \E chunks \in ReadStreams : NewOn(Reader(chunks), Seed9527)

NextRead == Len(program) < MaxReadForms /\ Eval(W_Read)

SpecRead == InitRead /\ [][NextRead]_vars

\* the concatenation of the sequences of a sequence
RECURSIVE Flatten(_)
Flatten(seqs) == IF seqs = <<>> THEN <<>> ELSE Head(seqs) \o Flatten(Tail(seqs))

\* the data of a stream, in order
StreamData(chunks) == Flatten(Flatten(chunks))

\* the value h of state st is the datum d: a Number for a numeral, a String
\* for a string literal, a Symbol for a bare name, the List (quote d) for a
\* quoted datum, a List of the data between parentheses
RECURSIVE IsDatum(_, _, _)
IsDatum(st, h, d) ==
    CASE d.k = "Number" -> st.heap[h] = NumberCell(MakeInt64Number(d.num))
      [] d.k = "String" -> st.heap[h] = StringCell(d.name)
      [] d.k = "Identifier" -> st.heap[h] = SymbolCell(d.name)
      [] d.k = "Quote" ->
           /\ st.heap[h].Type = "List"
           /\ st.heap[h].Data.len = 2
           /\ st.heap[Elements(st, st.heap[h])[1]] = SymbolCell("quote")
           /\ IsDatum(st, Elements(st, st.heap[h])[2], d.subs[1])
      [] d.k = "List" ->
           /\ st.heap[h].Type = "List"
           /\ st.heap[h].Data.len = Len(d.subs)
           /\ \A i \in 1..Len(d.subs) :
                 IsDatum(st, Elements(st, st.heap[h])[i], d.subs[i])

\* C20: each (read) takes one datum off the input stream and returns it, a
\* number as a Number, a string literal as a String, a bare name as a
\* Symbol, 'd as the List (quote d), data in parentheses as a List; the
\* k-th (read) returns the k-th datum of the stream.
C20_ReadTakesOneDatum ==
    [][(Evaluates(W_Read) /\ Len(program) < Len(StreamData(stdin.chunks))) =>
          (/\ ~failed'
           /\ IsDatum(State', ret', StreamData(stdin.chunks)[Len(program) + 1]))]_vars

----------------------------------------------------------------------------
(* The tail of a list.                                                     *)

\* (begin (define l (list 1 .. n)) (define t (cdr l)))
TL_Setup(n) ==
    Begin(<<Def("l", App(Id("list"), [i \in 1..n |-> Num(i)])),
            Def("t", App(Id("cdr"), <<Id("l")>>))>>)
TL_Setups == {TL_Setup(2), TL_Setup(3)}
\* (set-car! t v)
TL_SetCarT(v) == App(Id("set-car!"), <<Id("t"), Num(v)>>)
\* (set-car! (cdr l) v)
TL_SetCarCdr(v) == App(Id("set-car!"), <<App(Id("cdr"), <<Id("l")>>), Num(v)>>)
\* (set-cdr! l w)
TL_SetCdrL(w) == App(Id("set-cdr!"), <<Id("l"), Num(w)>>)
\* (cadr l)
TL_Cadr == App(Id("cadr"), <<Id("l")>>)

TL_SetCarTs == {TL_SetCarT(7), TL_SetCarT(8)}
TL_SetCarCdrs == {TL_SetCarCdr(5), TL_SetCarCdr(6)}
TL_SetCdrLs == {TL_SetCdrL(9)}

TailForms ==
    TL_Setups \cup TL_SetCarTs \cup TL_SetCarCdrs \cup TL_SetCdrLs \cup {TL_Cadr}

NextTail == \E exp \in TailForms : Eval(exp)

SpecTail == Init /\ [][NextTail]_vars

\* What a program of the forms above has made of l and t, read off its text:
\* the length n the list started with, the number that is the first element
\* of t, and the cdr l was given by set-cdr! (0: none, l is still the list).
RECURSIVE TailAfter(_)
TailAfter(prog) ==
    IF prog = <<>> THEN [defined |-> FALSE, n |-> 0, second |-> 0, cdr |-> 0]
    ELSE LET before == TailAfter(SubSeq(prog, 1, Len(prog) - 1))
             exp == prog[Len(prog)]
         IN CASE exp \in TL_Setups ->
                   [defined |-> TRUE, n |-> Len(exp.subs[1].subs[1].subs) - 1,
                    second |-> 2, cdr |-> 0]
              [] exp \in TL_SetCarTs -> [before EXCEPT !.second = exp.subs[3].num]
              [] exp \in TL_SetCarCdrs /\ before.cdr = 0 ->
                   [before EXCEPT !.second = exp.subs[3].num]
              [] exp \in TL_SetCdrLs -> [before EXCEPT !.cdr = exp.subs[3].num]
              [] OTHER -> before

\* how the elements from the third on are written
TailRestText(n) == IF n = 3 THEN " 3" ELSE ""

\* how t is written
TailTextOfT(tl) == "'(" \o ToString(tl.second) \o TailRestText(tl.n) \o ")"

\* how l is written
TailTextOfL(tl) ==
    IF tl.cdr = 0
    THEN "'(1 " \o ToString(tl.second) \o TailRestText(tl.n) \o ")"
    ELSE "'(1 . " \o ToString(tl.cdr) \o ")"

\* C30: the List cdr returns shares the elements of its operand: with t
\* defined as (cdr l), a set-car! through t or through (cdr l) sets the second
\* element read through l, (cadr l) then returns it, and a set-cdr! on l
\* leaves t as it was.
C30_CdrAliasesList ==
    TailAfter(program).defined =>
        /\ ReadsAs("t") = TailTextOfT(TailAfter(program))
        /\ ReadsAs("l") = TailTextOfL(TailAfter(program))
        /\ (LastForm = TL_Cadr /\ TailAfter(program).cdr = 0) =>
              (~failed /\ Returned = ToString(TailAfter(program).second))
        /\ (LastForm \in TL_SetCarTs \cup TL_SetCdrLs) => ~failed
        /\ (LastForm \in TL_SetCarCdrs) => (failed <=> TailAfter(program).cdr # 0)

\* (set-car! t 7) then (cadr l) on the list (1 2 3): 7
C30_Witness ==
    /\ program = <<TL_Setup(3), TL_SetCarT(7), TL_Cadr>>
    /\ ~failed
    /\ Returned = "7"
    /\ ReadsAs("l") = "'(1 7 3)"

\* (set-car! (cdr l) 5) then (set-cdr! l 9) on the list (1 2 3): l is
\* (1 . 9) and t still (5 3)
C30_WitnessSetCdr ==
    /\ program = <<TL_Setup(3), TL_SetCarCdr(5), TL_SetCdrL(9)>>
    /\ ~failed
    /\ ReadsAs("l") = "'(1 . 9)"
    /\ ReadsAs("t") = "'(5 3)"

----------------------------------------------------------------------------
(* The stack of procedure names.                                           *)

\* (begin (define (f x) (+ x 1)) (define (g x) (f (car x))))
N_Setup ==
    Begin(<<Def("f", Lam(<<"x">>, <<App(Prim("+"), <<Id("x"), Num(1)>>)>>)),
            Def("g", Lam(<<"x">>, <<App(Id("f"), <<App(Id("car"), <<Id("x")>>)>>)>>))>>)
\* (g '(1)): three calls deep, all returning
N_Ok == App(Id("g"), <<Quote(<<Num(1)>>)>>)
\* (g '()): car fails inside g
N_CarFails == App(Id("g"), <<Quote(<<>>)>>)
\* (g '(#f)): + fails inside f inside g
N_PlusFails == App(Id("g"), <<Quote(<<FalseLiteral>>)>>)
\* (f): the arity check of f fails
N_Arity == App(Id("f"), <<>>)
\* (h): the operator is undefined
N_Undefined == App(Id("h"), <<>>)
\* (1 2): the operator is no procedure
N_NotProcedure == App(Num(1), <<Num(2)>>)
\* (or 1 (car '())): the operand loop returns early
N_Or == App(Prim("or"), <<Num(1), App(Id("car"), <<Quote(<<>>)>>)>>)
\* (if (car '()) 1 2): a failure outside any procedure
N_If == If(App(Id("car"), <<Quote(<<>>)>>), Num(1), Num(2))
\* (apply g '(())): car fails inside g called by apply
N_Apply == App(Id("apply"), <<Id("g"), Quote(<<Quote(<<>>)>>)>>)
\* (map f '(1 2))
N_Map == App(Id("map"), <<Id("f"), Quote(<<Num(1), Num(2)>>)>>)
\* (f 1)
N_F == App(Id("f"), <<Num(1)>>)
\* ((lambda () (g '()))): car fails inside g inside a procedure without a name
N_Lambda == App(Lam(<<>>, <<N_CarFails>>), <<>>)

NameForms ==
    {N_Setup, N_Ok, N_CarFails, N_PlusFails, N_Arity, N_Undefined,
     N_NotProcedure, N_Or, N_If, N_Apply, N_Map, N_F, N_Lambda}

NextNames == \E exp \in NameForms : Eval(exp)

SpecNames == Init /\ [][NextNames]_vars

\* the operators whose call is under way when the form fails, read off the
\* text of the form and of f and g
N_Active(exp) ==
    CASE exp = N_CarFails -> {"g", "car"}
      [] exp = N_PlusFails -> {"g", "f", "+"}
      [] exp = N_Arity -> {"f"}
      [] exp = N_If -> {"car"}
      [] exp = N_Apply -> {"apply", "car"}
      [] exp = N_Lambda -> {ExprString(Operator(N_Lambda)), "g", "car"}
      [] OTHER -> {}

\* the forms that fail once f and g are defined
N_Failing == {N_CarFails, N_PlusFails, N_Arity, N_Undefined, N_NotProcedure,
              N_If, N_Apply, N_Lambda}

C29_WitnessMain ==
    /\ program # <<>>
    /\ LastForm = N_If
    /\ failed
    /\ Len(err.stackTrace) = 1
    /\ err.stackTrace[1].identifierName = "main"

----------------------------------------------------------------------------
(* The builtins on every vector of values.                                 *)

\* Number of top-level forms of a program of one call of a builtin.
MaxBuiltinForms == 1

\* the operand expressions: 0, -1, 3, 0.0, (cons 1 2), the empty list and
\* the builtin list
B_Pair == App(Id("cons"), <<Num(1), Num(2)>>)
BuiltinOperands ==
    {Num(0), Num(-1), Num(3), FloatLiteral(0, 1), B_Pair, Quote(<<>>), Id("list")}

BuiltinOperandLists ==
    {<<>>} \cup {<<a>> : a \in BuiltinOperands}
      \cup {<<a, b>> : a, b \in BuiltinOperands}

\* (name operand ...)
B_Call(name, operands) == App(Id(name), operands)

BuiltinForms ==
    {B_Call(BuiltinNames[i], operands) :
        i \in 1..Len(BuiltinNames), operands \in BuiltinOperandLists}

\* the input (1 with the end of the input inside the list, the input ) and
\* the empty input
B_Unclosed == ListExpression(<<NumberLiteral(1, 1), Node("EOF", "", 0, <<>>, <<>>, "", 1)>>, 1)
B_RightParen == Node("RightParen", ")", 0, <<>>, <<>>, "", 1)
BuiltinStreams == {<<>>, << << <<B_Unclosed>> >> >>, << << <<B_RightParen>> >> >>}

\* what the source of the generator may give
RandomSources == {<<0>>, <<5, 2>>}

InitBuiltin ==
    \E chunks \in BuiltinStreams, source \in RandomSources :
        NewOn(Reader(chunks), source)

NextBuiltin ==
    /\ Len(program) < MaxBuiltinForms
    /\ \E exp \in BuiltinForms : Eval(exp)

SpecBuiltin == InitBuiltin /\ [][NextBuiltin]_vars

\* C28: no builtin aborts the interpreter: the call of a builtin on any
\* vector of values returns a value, or an error that Eval returns as a
\* runtime error; it never panics.
C28_NoBuiltinPanics ==
    [][\A exp \in BuiltinForms :
          Evaluates(exp) =>
             \/ ~failed' /\ ret' # Nil
             \/ failed' /\ err'.rt /\ ~err'.panic]_vars

----------------------------------------------------------------------------
(* The lexer on texts.                                                     *)

OperatorCharacters == {"+", "-", "*", "/"}

\* what follows the operator character on its line
OperatorFollowers ==
    {<<>>, <<" ">>, <<"\t">>, <<"(">>, <<")">>, <<" ", "x">>, <<")", " ", "y">>,
     <<"1">>, <<"1", "2">>, <<"a">>, <<"a", "b", "c">>, <<"=">>}

\* an operator character and what follows it, on the only line of the text
OperatorText(c, f) == << <<c>> \o f >>

\* an operator character at the end of the first line of two
OperatorLine(c) == << <<c>>, <<"x">> >>

OperatorTexts ==
    {OperatorText(c, f) : c \in OperatorCharacters, f \in OperatorFollowers}
      \cup {OperatorLine(c) : c \in OperatorCharacters}

\* a string on one line
S_OneLine ==
    << <<"\"", "a", "b", "\"", " ", "x">> >>

\* the empty string
S_Empty ==
    << <<"\"", "\"">> >>

\* a string over two lines
S_TwoLines ==
    << <<"(", "f", " ", "\"", "a", "b">>,
       <<"c", "d", "\"", ")">> >>

\* a string over three lines, the second one empty
S_BlankLine ==
    << <<"\"", "a">>,
       <<>>,
       <<" ", "b", "\"", " ", "x">> >>

\* a string the input ends in
S_Unterminated ==
    << <<"\"", "a", "b">> >>

\* a string of two lines the input ends in
S_UnterminatedTwoLines ==
    << <<"x", " ", "\"", "a">>,
       <<"b">> >>

\* a #lang line, an empty line and comments around the tokens
L_Lang ==
    << <<"#", "l", "a", "n", "g", " ", "r", "a", "c", "k", "e", "t", "/", "b", "a", "s", "e">>,
       <<>>,
       <<";", " ", "a", " ", "c", "o", "m", "m", "e", "n", "t">>,
       <<"(", "a">>,
       <<>>,
       <<" ", " ", "b", ")", " ", ";", " ", "t", "h", "e", " ", "e", "n", "d">> >>

\* tokens of many kinds on three lines of four
L_Tokens ==
    << <<"(", "d", "e", "f", "i", "n", "e", " ", "x", " ", "1", "2", ")">>,
       <<"'", "y", " ", "#", "t", " ", "<", "=", " ", ".", "5">>,
       <<>>,
       <<"z", " ", ".", " ", "-", "3", " ", "*">> >>

\* a string from line 2 to line 3, a comment on the last line
L_String ==
    << <<"(", "d", "i", "s", "p", "l", "a", "y">>,
       <<"\"", "o", "n", "e">>,
       <<"t", "w", "o", "\"", " ", "x", ")">>,
       <<";", " ", "e", "n", "d">> >>

\* one token between empty lines
L_Blank ==
    << <<>>,
       <<>>,
       <<"x">>,
       <<>> >>

\* invalid tokens on line 2 and line 3
L_Invalid ==
    << <<"a">>,
       <<"#", "x", " ", "1", ".", "2", ".", "3">>,
       <<"1", "2", "a", "b", " ", "b">> >>

StringTexts ==
    {S_OneLine, S_Empty, S_TwoLines, S_BlankLine, S_Unterminated,
     S_UnterminatedTwoLines}

LineTexts == {L_Lang, L_Tokens, L_String, L_Blank, L_Invalid}

LexerTexts == OperatorTexts \cup StringTexts \cup LineTexts

InitLexer ==
    /\ NewEvaluator(Reader(<<>>), Seed9527)
    /\ parser = NewParser(<<>>)
    /\ parsed = NotParsed
    /\ \E text \in LexerTexts : lexer = NewLexer(text)
    /\ tokens = <<>>

\* one call of NextToken, until it has returned the EOF token
NextTokenCall ==
    /\ IF tokens = <<>> THEN TRUE ELSE tokens[Len(tokens)].TokenType # "EOF"
    /\ lexer' = NextToken(lexer).l
    /\ tokens' = Append(tokens, NextToken(lexer).tok)
    /\ UNCHANGED <<heap, arrays, frames, stdout, procedureNames, forceEvals, stdin,
                   rng, parser, parsed, program, ret, err, failed>>

NextLexer == NextTokenCall

SpecLexer == InitLexer /\ [][NextLexer]_vars

\* the bare operator tokens
BareOperator ==
    ("+" :> "Plus") @@ ("-" :> "Minus") @@ ("*" :> "Asterisk") @@ ("/" :> "Slash")

\* the token the operator character c followed by f is to give
OperatorToken(c, f) ==
    IF f = <<>> \/ f[1] \in {" ", "\t", "(", ")"}
    THEN Token(c, 1, BareOperator[c])
    ELSE IF c \in {"+", "-"} /\ isDigit(f[1])
    THEN Token(c \o Text(f), 1, "Number")
    ELSE Token(c \o Text(f), 1, "Identifier")

\* C25: each of + - * / followed by whitespace, a parenthesis or the end of
\* the line is the bare operator token; + or - followed by a digit is one
\* signed Number token; followed by any other character it is one
\* Identifier token that begins with the character.
C25_OperatorTokens ==
    /\ \A c \in OperatorCharacters, f \in OperatorFollowers :
         (lexer.lines = OperatorText(c, f) /\ tokens # <<>>)
            => tokens[1] = OperatorToken(c, f)
    /\ \A c \in OperatorCharacters :
         (lexer.lines = OperatorLine(c) /\ tokens # <<>>)
            => tokens[1] = Token(c, 1, BareOperator[c])

\* the index of the token of the string among the tokens of a text
StringIndex(text) ==
    CASE text = S_TwoLines -> 3
      [] text = S_UnterminatedTwoLines -> 2
      [] OTHER -> 1

\* the text between the quotes, the line terminators in it
StringSource(text) ==
    CASE text = S_OneLine -> "ab"
      [] text = S_Empty -> ""
      [] text = S_TwoLines -> "ab\ncd"
      [] text = S_BlankLine -> "a\n\n b"

\* C26: the content of a String token is the source text between the
\* quotes, the line terminators inside it included; a string the input
\* ends in is an Invalid token.
C26_StringContent ==
    \A text \in StringTexts :
       (lexer.lines = text /\ Len(tokens) >= StringIndex(text))
          => IF text \in {S_Unterminated, S_UnterminatedTwoLines}
             THEN tokens[StringIndex(text)].TokenType = "Invalid"
             ELSE /\ tokens[StringIndex(text)].TokenType = "String"
                  /\ tokens[StringIndex(text)].Content = StringSource(text)

\* the lines the first characters of the tokens of a text are on, the last
\* one the line of the EOF token
TokenLines(text) ==
    CASE text = L_Lang -> <<4, 4, 6, 6, 6>>
      [] text = L_Tokens -> <<1, 1, 1, 1, 1, 2, 2, 2, 2, 2, 4, 4, 4, 4, 4>>
      [] text = L_String -> <<1, 1, 2, 3, 3, 4>>
      [] text = L_Blank -> <<3, 4>>
      [] text = L_Invalid -> <<1, 2, 2, 2, 3, 3, 3, 3>>
      [] text = S_OneLine -> <<1, 1, 1>>
      [] text = S_Empty -> <<1, 1>>
      [] text = S_TwoLines -> <<1, 1, 1, 2, 2>>
      [] text = S_BlankLine -> <<1, 3, 3>>

\* C27: the Line of a token is the line its first character is on, for the
\* strings of several lines and after empty lines, comments and a #lang
\* line as well; the EOF token has the number of the last line read.
C27_TokenLines ==
    \A text \in LineTexts \cup (StringTexts \ {S_Unterminated, S_UnterminatedTwoLines}) :
       lexer.lines = text
          => /\ Len(tokens) <= Len(TokenLines(text))
             /\ \A i \in 1..Len(tokens) : tokens[i].Line = TokenLines(text)[i]

----------------------------------------------------------------------------
(* The parser on streams of tokens.                                        *)

\* the type of the token of a text
TokenTypeOf(content) ==
    CASE content = "(" -> "LeftParen"
      [] content = ")" -> "RightParen"
      [] content = "'" -> "Quote"
      [] content = "." -> "Dot"
      [] content \in DOMAIN keywordMap -> keywordMap[content]
      [] content \in DOMAIN BareOperator -> BareOperator[content]
      [] content \in DOMAIN Numerals -> "Number"
      [] OTHER -> "Identifier"

\* the tokens of the given texts, all on line 1
Toks(contents) == [i \in DOMAIN contents |-> Token(contents[i], 1, TokenTypeOf(contents[i]))]

\* the sequences of one to n elements of S
RECURSIVE SeqsUpTo(_, _)
SeqsUpTo(S, n) ==
    IF n = 0 THEN {}
    ELSE {<<x>> : x \in S} \cup {Append(s, x) : s \in SeqsUpTo(S, n - 1), x \in S}

\* the concatenation of the toks of a sequence of records
RECURSIVE ToksOf(_)
ToksOf(rs) == IF rs = <<>> THEN <<>> ELSE rs[1].toks \o ToksOf(Tail(rs))

\* Parse, called once
ParseCall ==
    /\ ~parsed.returned
    /\ parser' = Parse(parser).p
    /\ parsed' = [returned |-> TRUE, program |-> Parse(parser).program,
                  ok |-> Parse(parser).ok, err |-> Parse(parser).err]
    /\ UNCHANGED <<heap, arrays, frames, stdout, procedureNames, forceEvals, stdin,
                   rng, lexer, tokens, program, ret, err, failed>>

\* Parse has returned a nil Program and a ParsingError
ParseError == parsed.returned /\ ~parsed.ok /\ parsed.program = <<>>
                 /\ parsed.err # NoParsingError

\* Parse has returned the Program of the given expressions and no error
ParsedProgram(expressions) ==
    parsed.returned /\ parsed.ok /\ parsed.program = expressions
       /\ parsed.err = NoParsingError

\* clauses of a cond, with the test and the consequent they are to give
CL_One == [toks |-> <<"(", "a", "1", ")">>, test |-> Id("a"), body |-> Num(1)]
CL_Two ==
    [toks |-> <<"(", "b", "1", "2", ")">>, test |-> Id("b"),
     body |-> Begin(<<Num(1), Num(2)>>)]
CL_Call ==
    [toks |-> <<"(", "(", "f", "x", ")", "3", ")">>,
     test |-> App(Id("f"), <<Id("x")>>), body |-> Num(3)]
CondClauses == {CL_One, CL_Two, CL_Call}

\* a clause with no expression after its test
CL_TestOnly == [toks |-> <<"(", "c", ")">>, test |-> Id("c"), body |-> Void]

\* no else clause and else clauses, with the alternative they are to give
EL_None == [toks |-> <<>>, body |-> Void]
EL_One == [toks |-> <<"(", "else", "2", ")">>, body |-> Num(2)]
EL_Two == [toks |-> <<"(", "else", "2", "0", ")">>, body |-> Begin(<<Num(2), Num(0)>>)]
CondElses == {EL_None, EL_One, EL_Two}

\* an else clause with no expression
EL_Empty == [toks |-> <<"(", "else", ")">>, body |-> Void]

MaxClauses == 3

CondClauseLists == SeqsUpTo(CondClauses, MaxClauses)

\* the clause lists with one clause that has no expression
CondBadClauseLists ==
    {<<CL_TestOnly>>, <<CL_One, CL_TestOnly>>, <<CL_TestOnly, CL_Two>>}

CondStream(clauses, else) ==
    Toks(<<"(", "cond">> \o ToksOf(clauses) \o else.toks \o <<")">>)

CondStreams ==
    {CondStream(cs, e) : cs \in CondClauseLists \cup CondBadClauseLists \cup {<<>>},
                         e \in CondElses \cup {EL_Empty}}

\* If(t1, c1, If(t2, c2, ... If(tn, cn, alternative)))
RECURSIVE NestedIf(_, _)
NestedIf(clauses, alternative) ==
    If(clauses[1].test, clauses[1].body,
       IF Len(clauses) = 1 THEN alternative ELSE NestedIf(Tail(clauses), alternative))

\* parameter lists, rest parameters and bodies of lambda and define
ParameterLists == {<<>>, <<"p">>, <<"p", "q">>}
RestParameters == {"", "r"}
BD_None == [toks |-> <<>>, exps |-> <<>>]
BD_One == [toks |-> <<"p">>, exps |-> <<Id("p")>>]
BD_Two == [toks |-> <<"(", "g", "r", ")", "1">>, exps |-> <<App(Id("g"), <<Id("r")>>), Num(1)>>]
Bodies == {BD_None, BD_One, BD_Two}

ParameterToks(ps, rest) == ps \o (IF rest = "" THEN <<>> ELSE <<".", rest>>)

LambdaStream(ps, rest, body) ==
    Toks(<<"(", "lambda", "(">> \o ParameterToks(ps, rest) \o <<")">> \o body.toks
           \o <<")">>)

DefineStream(ps, rest, body) ==
    Toks(<<"(", "define", "(", "f">> \o ParameterToks(ps, rest) \o <<")">> \o body.toks
           \o <<")">>)

LambdaStreams ==
    {LambdaStream(ps, rest, body) : ps \in ParameterLists, rest \in RestParameters,
                                    body \in Bodies}
      \cup {DefineStream(ps, rest, body) : ps \in ParameterLists, rest \in RestParameters,
                                           body \in Bodies}

\* programs without an error
V_Call == Toks(<<"(", "f", "1", ")">>)
V_Nested == Toks(<<"(", "f", "(", "g", "1", ")", "2", ")">>)
V_Define == Toks(<<"(", "define", "x", "'", "a", ")">>)
V_QuoteList == Toks(<<"'", "(", "a", "(", "b", ")", ")">>)
V_If == Toks(<<"(", "if", "a", "1", "2", ")", "x">>)
V_Let == Toks(<<"(", "let", "(", "(", "a", "1", ")", ")", "a", ")">>)
V_Set == Toks(<<"(", "set!", "x", "(", "begin", "1", "x", ")", ")">>)
ValidStreams ==
    {V_Call, V_Nested, V_Define, V_QuoteList, V_If, V_Let, V_Set,
     CondStream(<<CL_One, CL_Call>>, EL_One), LambdaStream(<<"p">>, "", BD_One),
     DefineStream(<<"p">>, "r", BD_Two)}

\* an Invalid token of the lexer
InvalidToken == Token("invalid token after #: #x at line 1, column 0", 1, "Invalid")

\* the stream with the token put in after its first i tokens
InsertAt(stream, i, token) ==
    SubSeq(stream, 1, i) \o <<token>> \o SubSeq(stream, i + 1, Len(stream))

\* the stream without its i-th token
DropAt(stream, i) == SubSeq(stream, 1, i - 1) \o SubSeq(stream, i + 1, Len(stream))

\* the programs with an Invalid token at one position
InvalidStreams ==
    UNION {{InsertAt(s, i, InvalidToken) : i \in 0..Len(s)} : s \in ValidStreams}

\* the positions of the parentheses of a stream
Parentheses(stream) ==
    {i \in 1..Len(stream) : stream[i].TokenType \in {"LeftParen", "RightParen"}}

\* the programs with one parenthesis taken out, which leaves one without
\* its match
UnmatchedStreams ==
    UNION {{DropAt(s, i) : i \in Parentheses(s)} : s \in ValidStreams}

ParserStreams ==
    CondStreams \cup LambdaStreams \cup ValidStreams \cup InvalidStreams
      \cup UnmatchedStreams \cup {<<>>}

InitParser ==
    /\ NewEvaluator(Reader(<<>>), Seed9527)
    /\ lexer = NewLexer(<<>>)
    /\ tokens = <<>>
    /\ \E stream \in ParserStreams : parser = NewParser(stream)
    /\ parsed = NotParsed

NextParser == ParseCall

SpecParser == InitParser /\ [][NextParser]_vars

\* C21: (cond (t1 e1...) ... (tn en...) [(else e...)]) is parsed to
\* If(t1, c1, If(t2, c2, ... If(tn, cn, alt))), ci the expression of the
\* clause or the Begin of its expressions, alt the body of the else clause
\* or Void; a cond with no clause and a clause with no expression after its
\* test are parse errors.
C21_CondIsNestedIf ==
    /\ \A cs \in CondClauseLists, e \in CondElses :
         (parser.l.toks = CondStream(cs, e) /\ parsed.returned)
            => ParsedProgram(<<NestedIf(cs, e.body)>>)
    /\ (parser.l.toks = CondStream(<<>>, EL_None) /\ parsed.returned) => ParseError
    /\ \A cs \in CondBadClauseLists, e \in CondElses :
         (parser.l.toks = CondStream(cs, e) /\ parsed.returned) => ParseError

\* a cond of three clauses and an else clause of two expressions has been
\* parsed
C21_Witness ==
    /\ parser.l.toks = CondStream(<<CL_One, CL_Two, CL_Call>>, EL_Two)
    /\ ParsedProgram(<<If(Id("a"), Num(1),
                          If(Id("b"), Begin(<<Num(1), Num(2)>>),
                             If(App(Id("f"), <<Id("x")>>), Num(3),
                                Begin(<<Num(2), Num(0)>>))))>>)

\* a cond whose second clause has no expression has been refused
C21_WitnessError ==
    /\ parser.l.toks = CondStream(<<CL_One, CL_TestOnly>>, EL_None)
    /\ ParseError

\* C23: (lambda (p1 ... pn . rest) body...) is parsed to the Lambda of the
\* parameters p1..pn and the rest parameter rest, as the function form
\* (define (f p1 ... pn . rest) body...) is for the Lambda it binds to f; a
\* lambda and a function form with no body are parse errors.
C23_LambdaDottedTail ==
    \A ps \in ParameterLists, rest \in RestParameters, body \in Bodies :
       /\ (parser.l.toks = LambdaStream(ps, rest, body) /\ parsed.returned)
             => IF body = BD_None THEN ParseError
                ELSE ParsedProgram(<<LambdaExpression(ps, rest, body.exps, 1)>>)
       /\ (parser.l.toks = DefineStream(ps, rest, body) /\ parsed.returned)
             => IF body = BD_None THEN ParseError
                ELSE ParsedProgram(<<Def("f", LambdaExpression(ps, rest, body.exps, 0))>>)

\* C24: a stream with an Invalid token at any position, directly after a
\* quote as well, or with a parenthesis that has no match, makes Parse
\* return a ParsingError, with the Invalid token in it, and no Program;
\* the empty stream makes it return the empty Program and no error.
C24_InvalidTokenIsParsingError ==
    /\ \A s \in InvalidStreams :
         (parser.l.toks = s /\ parsed.returned)
            => ParseError /\ parsed.err.Token = InvalidToken
    /\ \A s \in UnmatchedStreams :
         (parser.l.toks = s /\ parsed.returned) => ParseError
    /\ (parser.l.toks = <<>> /\ parsed.returned) => ParsedProgram(<<>>)

----------------------------------------------------------------------------
(* let, parsed and evaluated.                                              *)

\* runFile handing the parsed program to Eval: one iteration of its loop
EvalParsed ==
    /\ parsed.returned
    /\ parsed.ok
    /\ Len(program) < Len(parsed.program)
    /\ Eval(parsed.program[Len(program) + 1])

\* the numerals the programs define x as, and the numbers they denote
LetNumerals == {"1", "2", "3"}
LetNumber(v) == CASE v = "1" -> 1 [] v = "2" -> 2 [] v = "3" -> 3

\* A let, the call of a lambda it is to behave as, and the expression both
\* are to be parsed to; names are the names its frame binds in the end.
\* (let ((x 2) (y x)) y): the x of the second binding is the x outside
LT_Shadow ==
    [let |-> <<"(", "let", "(", "(", "x", "2", ")", "(", "y", "x", ")", ")", "y", ")">>,
     lambda |-> <<"(", "(", "lambda", "(", "x", "y", ")", "y", ")", "2", "x", ")">>,
     exp |-> App(Lam(<<"x", "y">>, <<Id("y")>>), <<Num(2), Id("x")>>),
     names |-> {"x", "y"}]
\* (let ((a x)) a)
LT_Outer ==
    [let |-> <<"(", "let", "(", "(", "a", "x", ")", ")", "a", ")">>,
     lambda |-> <<"(", "(", "lambda", "(", "a", ")", "a", ")", "x", ")">>,
     exp |-> App(Lam(<<"a">>, <<Id("a")>>), <<Id("x")>>),
     names |-> {"a"}]
\* (let ((a 3)) (define b a) x): the body sees the x outside
LT_Define ==
    [let |-> <<"(", "let", "(", "(", "a", "3", ")", ")",
               "(", "define", "b", "a", ")", "x", ")">>,
     lambda |-> <<"(", "(", "lambda", "(", "a", ")",
                  "(", "define", "b", "a", ")", "x", ")", "3", ")">>,
     exp |-> App(Lam(<<"a">>, <<Def("b", Id("a")), Id("x")>>), <<Num(3)>>),
     names |-> {"a", "b"}]
\* (let () x)
LT_None ==
    [let |-> <<"(", "let", "(", ")", "x", ")">>,
     lambda |-> <<"(", "(", "lambda", "(", ")", "x", ")", ")">>,
     exp |-> App(Lam(<<>>, <<Id("x")>>), <<>>),
     names |-> {}]
\* ((lambda (z) (let ((w x)) z)) 0): a let in the body of a procedure
LT_Nested ==
    [let |-> <<"(", "(", "lambda", "(", "z", ")",
               "(", "let", "(", "(", "w", "x", ")", ")", "z", ")", ")", "0", ")">>,
     lambda |-> <<"(", "(", "lambda", "(", "z", ")",
                  "(", "(", "lambda", "(", "w", ")", "z", ")", "x", ")", ")", "0", ")">>,
     exp |-> App(Lam(<<"z">>, <<App(Lam(<<"w">>, <<Id("z")>>), <<Id("x")>>)>>),
                 <<Num(0)>>),
     names |-> {"w"}]
LetShapes == {LT_Shadow, LT_Outer, LT_Define, LT_None, LT_Nested}

LetVersions == {"let", "lambda"}

\* the names looked up after the let
LetProbes == {"x", "y", "a", "b", "w"}

\* (define x v), the let or the call of the lambda, and the probe
LetProgram(v, shape, version, probe) ==
    Toks(<<"(", "define", "x", v, ")">>
           \o (IF version = "let" THEN shape.let ELSE shape.lambda)
           \o <<probe>>)

\* lets with no body
LT_NoBody == Toks(<<"(", "let", "(", "(", "a", "1", ")", ")", ")">>)
LT_NoBodyNoBinding == Toks(<<"(", "let", "(", ")", ")">>)

LetStreams ==
    {LetProgram(v, shape, version, probe) :
        v \in LetNumerals, shape \in LetShapes, version \in LetVersions,
        probe \in LetProbes}
      \cup {LT_NoBody, LT_NoBodyNoBinding}

InitLet ==
    /\ NewEvaluator(Reader(<<>>), Seed9527)
    /\ lexer = NewLexer(<<>>)
    /\ tokens = <<>>
    /\ \E stream \in LetStreams : parser = NewParser(stream)
    /\ parsed = NotParsed

NextLet == ParseCall \/ EvalParsed

SpecLet == InitLet /\ [][NextLet]_vars

\* the step is the return of Parse
ParseReturns == ~parsed.returned /\ parsed'.returned

\* the step has made the frame f, enclosed by the frame e, with the names
FrameOf(f, e, names) ==
    /\ frames'[f].enclosing = e
    /\ DOMAIN frames'[f].store = names

\* C22: (let ((n1 e1) ... (nk ek)) body...) behaves as the call
\* ((lambda (n1 ... nk) body...) e1 ... ek): it is parsed to the same
\* expression; every ei is evaluated in the enclosing environment, the x of
\* (y x) being the x outside and not the x the let binds; the body runs in
\* one new frame that binds the names and is enclosed by the environment of
\* the let, the global one or the frame of the procedure the let is in; no
\* frame there was is changed, and after the let none of its names is
\* bound outside, x being what it was; a let with no body is a parse error.
C22_LetIsLambdaCall ==
    [][/\ \A v \in LetNumerals, shape \in LetShapes, version \in LetVersions,
             probe \in LetProbes :
            parser.l.toks = LetProgram(v, shape, version, probe)
               => /\ ParseReturns
                       => parsed' = [returned |-> TRUE, ok |-> TRUE,
                                     program |-> <<Def("x", Num(LetNumber(v))),
                                                   shape.exp, Id(probe)>>,
                                     err |-> NoParsingError]
                  /\ (Evaluates(shape.exp) /\ shape # LT_Nested)
                       => /\ ReturnsInt(LetNumber(v))
                          /\ NewFrames(1)
                          /\ OldFramesUnchanged
                          /\ FrameOf(Len(frames) + 1, globalEnv, shape.names)
                          /\ (shape = LT_Shadow => BindsInt(Len(frames) + 1, "x", 2))
                          /\ (shape = LT_Shadow
                                => BindsInt(Len(frames) + 1, "y", LetNumber(v)))
                  /\ (Evaluates(shape.exp) /\ shape = LT_Nested)
                       => /\ ReturnsInt(0)
                          /\ NewFrames(2)
                          /\ OldFramesUnchanged
                          /\ FrameOf(Len(frames) + 1, globalEnv, {"z"})
                          /\ FrameOf(Len(frames) + 2, Len(frames) + 1, {"w"})
                          /\ BindsInt(Len(frames) + 2, "w", LetNumber(v))
                  /\ Evaluates(Id(probe))
                       => IF probe = "x" THEN ReturnsInt(LetNumber(v)) ELSE failed'
       /\ \A stream \in {LT_NoBody, LT_NoBodyNoBinding} :
            (parser.l.toks = stream /\ ParseReturns)
               => /\ ~parsed'.ok
                  /\ parsed'.program = <<>>
                  /\ parsed'.err.Message = "expected at least one expression in let body"]_vars

\* (define x 3) (let ((x 2) (y x)) y) y has been parsed and evaluated: the
\* let has returned 3, and the y after it is not bound
C22_Witness ==
    /\ parser.l.toks = LetProgram("3", LT_Shadow, "let", "y")
    /\ Len(program) = 3
    /\ program[2] = LT_Shadow.exp
    /\ failed

\* the let with no body has been refused
C22_WitnessNoBody == parser.l.toks = LT_NoBody /\ ParseError

====
